---- MODULE Spec2Model ----
(***************************************************************************)
(* A model of noat's publish engine (src/unnamed/part_002): the markdown   *)
(* frontmatter codec, the draft builder, the three remote calls and the    *)
(* orchestrator that marks published posts and commits the markers (Spec), *)
(* and of its functions called on their own (SpecLib).                     *)
(*                                                                         *)
(* Representation.  A file is the array markdown.split('\n') of its lines. *)
(* A line is a record: its kind k, its indentation ind (0 = column 0),     *)
(* its key (frontmatter key, or the image reference of an image line),     *)
(* its value v, and cr: the line is ended by CR LF rather than by LF.      *)
(* A string value carries its length in grapheme units (g),                *)
(* its length in code points (cp, what Array.from(text).length counts),    *)
(* the URLs it contains (links) and, for slugs and URLs, its spelling (s):  *)
(* a sequence of tokens, each "/", " " (white space at either end of the   *)
(* string, or alone between two slashes) or a run of characters other than *)
(* '/', white space inside it included.                                    *)
(* A string ends with '\n' exactly when its last line is the empty line    *)
(* and it has at least two lines.  The absent file is the empty sequence.  *)
(*                                                                         *)
(* Style.  An intermediate value of the source (const x = ...) that is     *)
(* read more than once is passed on as the parameter of a helper operator. *)
(***************************************************************************)
EXTENDS Integers, Sequences, FiniteSets, TLC

\* ------------------------------------------------------------------ values

NoLinks == {}

Str(g, cp, links) == [t |-> "str", g |-> g, cp |-> cp, links |-> links, s |-> << >>]

RECURSIVE TokensLen(_)
TokensLen(tokens) ==
    IF tokens = << >> THEN 0 ELSE Len(Head(tokens)) + TokensLen(Tail(tokens))

\* a string given by its spelling
Spelled(tokens) ==
    [t |-> "str", g |-> TokensLen(tokens), cp |-> TokensLen(tokens),
     links |-> NoLinks, s |-> tokens]

Named(s) == Spelled(<<s>>)
NullV == [t |-> "null", g |-> 0, cp |-> 0, links |-> NoLinks, s |-> << >>]
MapV == [t |-> "map", g |-> 0, cp |-> 0, links |-> NoLinks, s |-> << >>]
Undefined == [t |-> "undef", g |-> 0, cp |-> 0, links |-> NoLinks, s |-> << >>]

\* ------------------------------------------------------------------- lines

Delim == [k |-> "delim", ind |-> 0, key |-> "", v |-> Undefined, cr |-> FALSE]
Blank == [k |-> "blank", ind |-> 0, key |-> "", v |-> Undefined, cr |-> FALSE]
Bad == [k |-> "bad", ind |-> 0, key |-> "", v |-> Undefined, cr |-> FALSE]
KV(key, v) == [k |-> "kv", ind |-> 0, key |-> key, v |-> v, cr |-> FALSE]
Sub(key, v) == [k |-> "kv", ind |-> 1, key |-> key, v |-> v, cr |-> FALSE]
Txt(v) == [k |-> "text", ind |-> 0, key |-> "", v |-> v, cr |-> FALSE]
Img(ref) == [k |-> "img", ind |-> 0, key |-> ref, v |-> Undefined, cr |-> FALSE]
Bytes(id) == [k |-> "bytes", ind |-> 0, key |-> id, v |-> Undefined, cr |-> FALSE]

NoFile == << >>

\* markdown.split(/\r?\n/): the lines without their terminators; joined with
\* '\n' they are the same lines, none ended by "\r\n"
Split(markdown) == [i \in 1..Len(markdown) |-> [markdown[i] EXCEPT !.cr = FALSE]]

DEFAULT_AT_URL_FIELD == "AT_URL"

MinOf(S) == CHOOSE y \in S : \A z \in S : y <= z

MaxOf(S) == CHOOSE y \in S : \A z \in S : y >= z

FirstOrZero(S) == IF S = {} THEN 0 ELSE MinOf(S)

LastOrZero(S) == IF S = {} THEN 0 ELSE MaxOf(S)

\* ------------------------------------------------------- frontmatter codec

\* the index of the first line after the first that is a delimiter; 0 when
\* there is none (the code's -1)
ClosingIndex(lines) == FirstOrZero({i \in 2..Len(lines) : lines[i].k = "delim"})

OpensBlock(lines) == Len(lines) >= 1 /\ lines[1].k = "delim"

EndsWithNewline(lines) == Len(lines) >= 2 /\ lines[Len(lines)] = Blank

finalizeNewline(lines, hasTrailingNewline) ==
    IF hasTrailingNewline
    THEN IF EndsWithNewline(lines) THEN lines ELSE Append(lines, Blank)
    ELSE IF EndsWithNewline(lines) THEN SubSeq(lines, 1, Len(lines) - 1) ELSE lines

\* fieldPattern.test(line): ^field\s*: matches a key at column 0
FieldPatternTest(line, field) == line.k = "kv" /\ line.ind = 0 /\ line.key = field

\* JSON.stringify(value) read back by the YAML parser is the string value
RenderedField(field, value) == KV(field, Named(value))

\* variant: the field is spliced in after the closing delimiter
UpsertAtAfterClosing(lines, renderedField, closingIndex, hit) ==
    IF hit # 0
    THEN [lines EXCEPT ![hit] = renderedField]
    ELSE SubSeq(lines, 1, closingIndex)
            \o <<renderedField>>
            \o SubSeq(lines, closingIndex + 1, Len(lines))

\* the first matching line of the block is replaced (index hit), or the field
\* is spliced in before the closing delimiter (hit = 0)
UpsertAt(lines, renderedField, closingIndex, hit) ==
    IF hit # 0
    THEN [lines EXCEPT ![hit] = renderedField]
    ELSE SubSeq(lines, 1, closingIndex - 1)
            \o <<renderedField>>
            \o SubSeq(lines, closingIndex, Len(lines))

\* without a frontmatter block the block is put in front of the text as it is
UpsertLines(markdown, lines, field, renderedField, closingIndex) ==
    IF OpensBlock(lines) /\ closingIndex # 0
    THEN UpsertAt(lines, renderedField, closingIndex,
                  FirstOrZero({i \in 2..(closingIndex - 1) :
                                  FieldPatternTest(lines[i], field)}))
    ELSE <<Delim, renderedField, Delim>> \o markdown

upsertFrontmatterField(markdown, field, value) ==
    finalizeNewline(UpsertLines(markdown, Split(markdown), field,
                                RenderedField(field, value), ClosingIndex(markdown)),
                    EndsWithNewline(markdown))

\* the lines of the block that match the field are left out; a text without a
\* closed block is returned as it is
StripLines(markdown, lines, field, closingIndex) ==
    IF ~OpensBlock(lines) \/ closingIndex = 0 THEN markdown
    ELSE finalizeNewline(
             <<Delim>>
                 \o SelectSeq(SubSeq(lines, 2, closingIndex - 1),
                              LAMBDA line : ~FieldPatternTest(line, field))
                 \o <<Delim>>
                 \o SubSeq(lines, closingIndex + 1, Len(lines)),
             EndsWithNewline(markdown))

stripFrontmatterField(markdown, field) ==
    StripLines(markdown, Split(markdown), field, ClosingIndex(markdown))

\* the top-level key line an indented line belongs to; 0 when there is none
ParentIndex(block, i) ==
    LastOrZero({j \in 1..(i - 1) : block[j].k = "kv" /\ block[j].ind = 0})

HasChildren(block, j) ==
    \E i \in (j + 1)..Len(block) :
        block[i].k = "kv" /\ block[i].ind = 1 /\ ParentIndex(block, i) = j

\* yaml.load accepts the block: key lines only, an indented line sits under a
\* key without a scalar value, no key twice in one mapping
YamlLoads(block) ==
    /\ \A i \in 1..Len(block) : block[i].k \in {"kv", "blank"}
    /\ \A i \in 1..Len(block) :
          (block[i].k = "kv" /\ block[i].ind = 1) =>
              /\ ParentIndex(block, i) # 0
              /\ block[ParentIndex(block, i)].v.t = "null"
    /\ \A i, j \in 1..Len(block) :
          (/\ i < j
           /\ block[i].k = "kv" /\ block[j].k = "kv"
           /\ block[i].ind = block[j].ind
           /\ block[i].key = block[j].key)
          => (block[i].ind = 1 /\ ParentIndex(block, i) # ParentIndex(block, j))

\* the parsed mapping, as the set of its dotted paths with their values
YamlMap(block) ==
    {[path |-> <<block[i].key>>,
      v |-> IF HasChildren(block, i) THEN MapV ELSE block[i].v] :
        i \in {j \in 1..Len(block) : block[j].k = "kv" /\ block[j].ind = 0}}
    \cup
    {[path |-> <<block[ParentIndex(block, i)].key, block[i].key>>, v |-> block[i].v] :
        i \in {j \in 1..Len(block) : block[j].k = "kv" /\ block[j].ind = 1}}

\* ok is FALSE when "Invalid YAML frontmatter" is thrown
parseYamlFrontmatter(block) ==
    [ok |-> YamlLoads(block),
     frontmatter |-> IF YamlLoads(block) THEN YamlMap(block) ELSE {}]

SplitParts(yaml, content) ==
    [ok |-> yaml.ok, frontmatter |-> yaml.frontmatter, content |-> content]

SplitAt(markdown, lines, closingIndex) ==
    IF ~OpensBlock(lines) \/ closingIndex = 0
    THEN [ok |-> TRUE, frontmatter |-> {}, content |-> markdown]
    ELSE SplitParts(parseYamlFrontmatter(SubSeq(lines, 2, closingIndex - 1)),
                    SubSeq(lines, closingIndex + 1, Len(lines)))

splitFrontmatter(markdown) == SplitAt(markdown, Split(markdown), ClosingIndex(markdown))

\* fieldPath is the sequence of its '.'-separated segments
getNestedField(data, fieldPath) ==
    IF \E e \in data : e.path = fieldPath
    THEN (CHOOSE e \in data : e.path = fieldPath).v
    ELSE Undefined

RECURSIVE TrimStart(_, _)
TrimStart(tokens, char) ==
    IF tokens # << >> /\ Head(tokens) = char THEN TrimStart(Tail(tokens), char)
    ELSE tokens

RECURSIVE TrimEnd(_, _)
TrimEnd(tokens, char) ==
    IF tokens # << >> /\ tokens[Len(tokens)] = char
    THEN TrimEnd(SubSeq(tokens, 1, Len(tokens) - 1), char)
    ELSE tokens

\* value.trim() on a spelling
Trim(tokens) == TrimEnd(TrimStart(tokens, " "), " ")

\* a string that is not blank after trimming (the trimmed string), else
\* undefined; a string without a spelling has no white space around it
resolveString(value) ==
    IF value.t # "str" THEN Undefined
    ELSE IF value.s = << >> THEN (IF value.cp > 0 THEN value ELSE Undefined)
    ELSE IF Trim(value.s) = << >> THEN Undefined
    ELSE Spelled(Trim(value.s))

RECURSIVE firstString(_, _)
FirstOf(text, data, rest) ==
    IF text # Undefined THEN text ELSE firstString(data, rest)

firstString(data, fieldPaths) ==
    IF fieldPaths = << >> THEN Undefined
    ELSE FirstOf(resolveString(getNestedField(data, Head(fieldPaths))),
                 data, Tail(fieldPaths))

AppendUnique(output, value) ==
    IF value = << >> \/ (\E i \in 1..Len(output) : output[i] = value)
    THEN output ELSE Append(output, value)

RECURSIVE uniquePaths(_)
uniquePaths(paths) ==
    IF paths = << >> THEN << >>
    ELSE AppendUnique(uniquePaths(SubSeq(paths, 1, Len(paths) - 1)), paths[Len(paths)])

\* ------------------------------------------------------------------- paths

\* a repo-relative file path: its directory segments, the file's base name
\* and its extension (lower case, with the dot)
Path(dir, name, ext) == [dir |-> dir, name |-> name, ext |-> ext]

NoPath == Path(<< >>, "", "")

MARKDOWN_EXTENSIONS == {".md", ".markdown"}

IMAGE_MIME_BY_EXTENSION ==
    [e \in {".jpg", ".jpeg", ".png", ".gif", ".webp", ".avif"} |->
        CASE e = ".jpg" -> "image/jpeg"
          [] e = ".jpeg" -> "image/jpeg"
          [] e = ".png" -> "image/png"
          [] e = ".gif" -> "image/gif"
          [] e = ".webp" -> "image/webp"
          [] e = ".avif" -> "image/avif"]

\* an asset reference as written in ![alt](ref): a scheme with its colon ("" for
\* none, "data:", else what stands in front of //), the number of leading
\* slashes, the directory segments and the file it names
Ref(scheme, lead, segs, name, ext) ==
    [scheme |-> scheme, lead |-> lead, segs |-> segs, name |-> name, ext |-> ext]

NoRef == Ref("", 0, << >>, "", "")

\* posix.normalize on directory segments: acc is the normalized prefix, up the
\* number of leading ".." kept in front of it
RECURSIVE NormalizeSegs(_, _, _, _)
NormalizeSegs(segs, acc, up, absolute) ==
    IF segs = << >> THEN [up |-> up, dir |-> acc]
    ELSE IF Head(segs) = "." \/ Head(segs) = ""
    THEN NormalizeSegs(Tail(segs), acc, up, absolute)
    ELSE IF Head(segs) = ".."
    THEN IF acc # << >>
         THEN NormalizeSegs(Tail(segs), SubSeq(acc, 1, Len(acc) - 1), up, absolute)
         ELSE NormalizeSegs(Tail(segs), acc, IF absolute THEN up ELSE up + 1, absolute)
    ELSE NormalizeSegs(Tail(segs), Append(acc, Head(segs)), up, absolute)

\* the check on resolvedPath: '', '.', '..' and '../...' are thrown
ResolvedPath(assetPath, absolute, norm) ==
    IF norm.up > 0 \/ (~absolute /\ norm.dir = << >> /\ assetPath.name = "")
    THEN [err |-> "outside", absolute |-> FALSE, path |-> NoPath]
    ELSE [err |-> "", absolute |-> absolute,
          path |-> Path(norm.dir, assetPath.name, assetPath.ext)]

\* the scheme names made of the letters a-z and A-Z only
LetterSchemes == {"https:", "http:", "HTTPS:", "file:"}

\* /^[a-z]+:\/\//i.test(input) || input.startsWith('data:')
NonLocalScheme(scheme) == scheme \in LetterSchemes \/ scheme = "data:"

\* the path segments of the input: a scheme the test lets through is the
\* first segment ("s3:"), and the empty segment of its "//" follows it
InputSegs(assetPath) ==
    IF assetPath.scheme = "" THEN assetPath.segs
    ELSE <<assetPath.scheme, "">> \o assetPath.segs

\* the result is thrown ("scheme", "outside") or a path; a path that keeps a
\* leading '/' (the reference began with two or more) is marked absolute
resolveGitRelativePath(postPath, assetPath) ==
    IF NonLocalScheme(assetPath.scheme)
    THEN [err |-> "scheme", absolute |-> FALSE, path |-> NoPath]
    ELSE IF assetPath.lead >= 1
    THEN ResolvedPath(assetPath, assetPath.lead >= 2,
                      NormalizeSegs(InputSegs(assetPath), << >>, 0, assetPath.lead >= 2))
    ELSE ResolvedPath(assetPath, FALSE,
                      NormalizeSegs(postPath.dir \o InputSegs(assetPath), << >>, 0, FALSE))

\* "" when "Unsupported image type" is thrown
detectImageMimeType(filePath) ==
    IF filePath.ext \in DOMAIN IMAGE_MIME_BY_EXTENSION
    THEN IMAGE_MIME_BY_EXTENSION[filePath.ext]
    ELSE ""

\* ---------------------------------------------------------------- backlink

\* a URL under the base URL is the sequence of its path segments
BaseUrl == << >>

\* slug.trim().replace(/^\/+|\/+$/g, '')
trimSlashes(slug) == TrimEnd(TrimStart(Trim(slug), "/"), "/")

\* encodeURIComponent on the segments in use: a space becomes %20, the
\* unreserved characters stay
Escaped == [segment \in {" ", "weekly note"} |->
               IF segment = " " THEN "%20" ELSE "weekly%20note"]

\* variant: the segment is taken as it is
encodeURIComponentRaw(segment) == segment

encodeURIComponent(segment) ==
    IF segment \in DOMAIN Escaped THEN Escaped[segment] ELSE segment

\* .split('/').filter(Boolean).map(encodeURIComponent): the segments of a URL
RECURSIVE EncodedSegments(_)
EncodedSegments(tokens) ==
    IF tokens = << >> THEN << >>
    ELSE IF Head(tokens) \in {"/", ""} THEN EncodedSegments(Tail(tokens))
    ELSE <<encodeURIComponent(Head(tokens))>> \o EncodedSegments(Tail(tokens))

\* postsRootSpec is the sequence of the posts root's segments, "" after a
\* trailing slash: '.' is the empty root, a leading './' and trailing slashes
\* are removed
normalizePostsRoot(postsRootSpec) ==
    IF postsRootSpec = <<".">> THEN << >>
    ELSE IF Len(postsRootSpec) >= 2 /\ Head(postsRootSpec) = "."
    THEN TrimEnd(TrimStart(Tail(postsRootSpec), ""), "")
    ELSE TrimEnd(postsRootSpec, "")

IsPrefix(a, b) == Len(a) <= Len(b) /\ SubSeq(b, 1, Len(a)) = a

RemoveAt(dir, at, length) ==
    IF at = 0 THEN dir
    ELSE SubSeq(dir, 1, at - 1) \o SubSeq(dir, at + length, Len(dir))

\* postPath.replace(`${postsRoot}/`, ''): the first place where the root's
\* segments stand in the path is cut out
RelativeDir(postsRoot, dir) ==
    IF postsRoot = << >> THEN dir
    ELSE RemoveAt(dir,
                  FirstOrZero({i \in 1..(Len(dir) - Len(postsRoot) + 1) :
                                  SubSeq(dir, i, i + Len(postsRoot) - 1) = postsRoot}),
                  Len(postsRoot))

\* the base names that end with ".md", and what is in front of it
MdStems == [name \in {"notes.md", ".md"} |-> IF name = ".md" THEN "" ELSE "notes"]

\* .replace(/\.markdown$/i, '').replace(/\.md$/i, '') on a markdown file's
\* name: after ".markdown" is removed a ".md" now at the end is removed too
WithoutExtension(name, ext) ==
    IF ext = ".markdown" /\ name \in DOMAIN MdStems THEN MdStems[name] ELSE name

\* a trailing '/index' is removed: the name is dropped, unless it is the
\* whole path
CanonicalPath(relativeDir, name) ==
    IF name = "index" /\ relativeDir # << >>
    THEN relativeDir
    ELSE Append(relativeDir, name)

\* postPath is a markdown file (listMarkdownPosts): its extension is stripped,
\* and a trailing /index segment too
backlinkFromPostPath(postsRootSpec, postPath) ==
    EncodedSegments(
        CanonicalPath(RelativeDir(normalizePostsRoot(postsRootSpec), postPath.dir),
                      WithoutExtension(postPath.name, postPath.ext)))

BacklinkFor(slug, postsRootSpec, postPath) ==
    IF slug = Undefined THEN backlinkFromPostPath(postsRootSpec, postPath)
    ELSE IF trimSlashes(slug.s) = << >> THEN BaseUrl
    ELSE EncodedSegments(trimSlashes(slug.s))

resolveBacklinkUrl(postPath, postsRootSpec, frontmatter) ==
    BacklinkFor(firstString(frontmatter,
                            uniquePaths(<< <<"slug">>, <<"bluesky", "slug">> >>)),
                postsRootSpec, postPath)

\* ------------------------------------------------------------ draft builder

MaxPostChars == 300

BaseUrlLen == 20

RECURSIVE SumLen(_)
SumLen(segs) == IF segs = << >> THEN 0 ELSE 1 + Len(Head(segs)) + SumLen(Tail(segs))

UrlLen(url) == BaseUrlLen + SumLen(url)

\* text.includes(url)
Includes(text, url) == \E l \in text.links : IsPrefix(url, l)

\* variant: the URL is appended without looking for it in the text
appendBacklinkAlways(text, backlinkUrl) ==
    Str(text.g + 2 + UrlLen(backlinkUrl),
        text.cp + 2 + UrlLen(backlinkUrl),
        text.links \cup {backlinkUrl})

appendBacklink(text, backlinkUrl) ==
    IF Includes(text, backlinkUrl) THEN text
    ELSE Str(text.g + 2 + UrlLen(backlinkUrl),
             text.cp + 2 + UrlLen(backlinkUrl),
             text.links \cup {backlinkUrl})

\* the text a line contributes to the body once image markup is removed
LineText(line) ==
    CASE line.k = "text" -> line.v
      [] line.k = "kv" ->
            Str(2 * line.ind + Len(line.key) + 2 + line.v.g,
                2 * line.ind + Len(line.key) + 2 + line.v.cp, line.v.links)
      [] line.k \in {"delim", "bad"} -> Str(3, 3, NoLinks)
      [] OTHER -> Str(0, 0, NoLinks)

\* two lines and their terminator: "\r\n" is one grapheme of two code points
Joined(first, cr, rest) ==
    Str(first.g + 1 + rest.g,
        first.cp + (IF cr THEN 2 ELSE 1) + rest.cp,
        first.links \cup rest.links)

RECURSIVE JoinLines(_)
JoinLines(lines) ==
    IF Len(lines) = 1 THEN LineText(lines[1])
    ELSE Joined(LineText(Head(lines)), Head(lines).cr, JoinLines(Tail(lines)))

TrimJoin(content, inked) ==
    IF inked = {} THEN Str(0, 0, NoLinks)
    ELSE JoinLines(SubSeq(content, MinOf(inked), MaxOf(inked)))

\* stripMarkdownImages(content).trim()
stripMarkdownImages(content) ==
    TrimJoin(content, {i \in 1..Len(content) : LineText(content[i]).cp > 0})

ImageAt(content, first) ==
    IF first = 0 THEN [found |-> FALSE, path |-> NoRef]
    ELSE [found |-> TRUE, path |-> content[first].key]

findFirstMarkdownImage(content) ==
    ImageAt(content, FirstOrZero({i \in 1..Len(content) : content[i].k = "img"}))

\* characterCount > 300, where characterCount = Array.from(text).length
TooLong(text) == text.cp > MaxPostChars

\* variant: the body is taken whenever it has text
PostTextBodyFirst(fromField, content) ==
    IF stripMarkdownImages(content).cp > 0 THEN stripMarkdownImages(content)
    ELSE fromField

\* the frontmatter tiers, then the body
PostText(fromField, content) ==
    IF fromField # Undefined THEN fromField ELSE stripMarkdownImages(content)

PostFields(ok, text, firstImage) ==
    [err |-> IF ~ok THEN "yaml"
             ELSE IF text.cp = 0 THEN "missing-text"
             ELSE IF TooLong(text) THEN "too-long"
             ELSE "",
     text |-> text,
     image |-> firstImage]

ParsedFields(parsed, postTextField) ==
    PostFields(parsed.ok,
               PostText(firstString(parsed.frontmatter,
                                    uniquePaths(<<postTextField, <<"bluesky", "text">>,
                                                  <<"text">>, <<"post">> >>)),
                        parsed.content),
               findFirstMarkdownImage(parsed.content))

parsePostFields(markdown, postTextField) ==
    ParsedFields(splitFrontmatter(markdown), postTextField)

assertPostLength(text) == ~TooLong(text)

NoImage == [path |-> NoPath, mimeType |-> "", bytes |-> NoFile]

\* git show HEAD:path succeeds for a file of the commit
InCommit(commit, path) == path \in DOMAIN commit /\ commit[path] # NoFile

\* variant: only a non-blank string counts as the marker
HasMarkerTruthy(frontmatter) ==
    resolveString(getNestedField(frontmatter, <<DEFAULT_AT_URL_FIELD>>)) # Undefined

\* atUrl !== undefined: the post already carries the marker
HasMarker(frontmatter) ==
    getNestedField(frontmatter, <<DEFAULT_AT_URL_FIELD>>) # Undefined

Skipped(postPath) ==
    [skip |-> TRUE, err |-> "",
     draft |-> [path |-> postPath, text |-> Undefined, image |-> NoImage]]

Thrown(postPath, err) ==
    [skip |-> FALSE, err |-> err,
     draft |-> [path |-> postPath, text |-> Undefined, image |-> NoImage]]

Pushed(postPath, text, image) ==
    [skip |-> FALSE, err |-> "",
     draft |-> [path |-> postPath, text |-> text, image |-> image]]

\* the image of a draft: its path is resolved, its bytes are read at HEAD and
\* its type is detected
DraftWithImage(commit, postPath, text, resolved) ==
    IF resolved.err # "" THEN Thrown(postPath, resolved.err)
    ELSE IF resolved.absolute \/ ~InCommit(commit, resolved.path)
    THEN Thrown(postPath, "git-show")
    ELSE IF detectImageMimeType(resolved.path) = "" THEN Thrown(postPath, "mime")
    ELSE Pushed(postPath, text,
                [path |-> resolved.path,
                 mimeType |-> detectImageMimeType(resolved.path),
                 bytes |-> commit[resolved.path]])

DraftWithText(commit, postPath, parsed, text) ==
    IF ~assertPostLength(text) THEN Thrown(postPath, "too-long-with-backlink")
    ELSE IF ~parsed.image.found THEN Pushed(postPath, text, NoImage)
    ELSE DraftWithImage(commit, postPath, text,
                        resolveGitRelativePath(postPath, parsed.image.path))

DraftFrom(commit, config, postPath, split, parsed) ==
    IF ~split.ok THEN Thrown(postPath, "yaml")
    ELSE IF HasMarker(split.frontmatter) THEN Skipped(postPath)
    ELSE IF parsed.err # "" THEN Thrown(postPath, parsed.err)
    ELSE DraftWithText(commit, postPath, parsed,
                       appendBacklink(parsed.text,
                                      resolveBacklinkUrl(postPath, config.postsRootSpec,
                                                         split.frontmatter)))

\* one iteration of buildDrafts' loop over the file at HEAD: the post is
\* skipped, or an error is thrown, or a draft is pushed
DraftOf(commit, config, postPath) ==
    DraftFrom(commit, config, postPath,
              splitFrontmatter(commit[postPath]),
              parsePostFields(commit[postPath], config.postTextField))

\* variant: a post that fails validation is left out
CollectedLenient(one, rest) ==
    IF one.err # "" THEN rest
    ELSE IF rest.err # "" THEN [err |-> rest.err, drafts |-> << >>]
    ELSE IF one.skip THEN [err |-> "", drafts |-> rest.drafts]
    ELSE [err |-> "", drafts |-> <<one.draft>> \o rest.drafts]

\* an error thrown in any iteration leaves no draft list
Collected(one, rest) ==
    IF one.err # "" THEN [err |-> one.err, drafts |-> << >>]
    ELSE IF rest.err # "" THEN [err |-> rest.err, drafts |-> << >>]
    ELSE IF one.skip THEN [err |-> "", drafts |-> rest.drafts]
    ELSE [err |-> "", drafts |-> <<one.draft>> \o rest.drafts]

RECURSIVE buildDrafts(_, _, _)
buildDrafts(commit, config, postPaths) ==
    IF postPaths = << >> THEN [err |-> "", drafts |-> << >>]
    ELSE Collected(DraftOf(commit, config, Head(postPaths)),
                   buildDrafts(commit, config, Tail(postPaths)))

\* ------------------------------------------------------------ the repository

PostA == Path(<<"posts">>, "a", ".md")
PostB == Path(<<"posts", "b">>, "index", ".md")
ImageX == Path(<<"posts", "img">>, "x", ".png")

Files == {PostA, PostB, ImageX}

Posts == {PostA, PostB}

\* the tracked paths in localeCompare order, which for these three is the
\* same in every locale
SortedPaths == <<PostA, PostB, ImageX>>

PostsRootSpec == <<"posts">>

\* texts around the limit, for a post whose backlink has one segment of one
\* character: Fit reaches the limit once the backlink is appended
Room == MaxPostChars - 2 - UrlLen(<<"a">>)

Short == Str(11, 11, NoLinks)
Fit == Str(Room, Room, NoLinks)
Over == Str(Room + 1, Room + 1, NoLinks)
Full == Str(MaxPostChars, MaxPostChars, {<<"a">>})
Huge == Str(MaxPostChars + 1, MaxPostChars + 1, {<<"a">>})
\* texts with one grapheme of two code points
Accent == Str(Room - 1, Room, NoLinks)
AccentFit == Str(Room, Room + 1, NoLinks)

RefX == Ref("", 0, <<".", "img">>, "x", ".png")
RefSlashX == Ref("", 1, <<"posts", "img">>, "x", ".png")
RefUpX == Ref("", 0, <<"..", "img">>, "x", ".png")
RefOutside == Ref("", 0, <<"..", "..">>, "x", ".png")
RefUrl == Ref("https:", 0, <<"cdn">>, "x", ".png")
RefData == Ref("data:", 0, << >>, "x", ".png")
RefNote == Ref("", 0, << >>, "a", ".md")
RefGone == Ref("", 0, <<"img">>, "y", ".png")

Plain(t) == <<Delim, KV("title", Named("Launch")), KV("post", t), Delim, Txt(Short), Blank>>
WithImage(t, ref) == <<Delim, KV("post", t), Delim, Img(ref), Txt(Short)>>
Marked(v, t, ref) == <<Delim, KV("post", t), KV("AT_URL", v), Delim, Img(ref), Blank>>
NestedMarker ==
    <<Delim, KV("bluesky", NullV), Sub("AT_URL", Named("rk0")), Sub("text", Short), Delim>>
BodyOnly == <<Txt(Short), Img(RefX), Blank>>
Unclosed == <<Delim, KV("post", Short), Txt(Short)>>
Malformed == <<Delim, Bad, Delim, Txt(Short)>>
NoText == <<Delim, KV("title", Named("Launch")), Delim, Img(RefX)>>
Slugged(t) == <<Delim, KV("slug", Named("foo")), KV("post", t), Delim, Blank>>
Png == <<Bytes("png1")>>

\* the same file saved with CRLF line endings
Crlf(lines) == [i \in 1..Len(lines) |-> [lines[i] EXCEPT !.cr = (i < Len(lines))]]

Repo(a, b, x) == (PostA :> a) @@ (PostB :> b) @@ (ImageX :> x)

\* ------------------------------------------------------------------ bounds

MaxRuns == 2
MaxEnv == 1

\* ------------------------------------------------------------------- state

VARIABLES
    head,       \* the latest commit: file -> lines
    index,      \* the staging area
    tree,       \* the working tree
    log,        \* commit subjects, newest first: n > 0 is "AT proto publish n",
                \* 0 any other subject
    remote,     \* post path -> number of records created for it on the network
    cur,        \* the publish run in progress, or the last one finished
    prev,       \* the run before it
    touched,    \* the repository was changed by hand since the last run ended
    envSteps,   \* number of manual changes so far
    lib         \* the last call of an exported function made from outside the
                \* engine: its name fn, its arguments x, y, z, its result out,
                \* the result of its first application and the number n of
                \* applications so far

vars == <<head, index, tree, log, remote, cur, prev, touched, envSteps, lib>>

NoCall == [fn |-> "", x |-> << >>, y |-> << >>, z |-> << >>,
           first |-> << >>, out |-> << >>, n |-> 0]

NoSummary == [dryRun |-> FALSE, totalPosts |-> 0, skippedPosts |-> 0,
              queuedPosts |-> 0, publishedPosts |-> 0]

\* a setting as given on the command line, in the config file and in the
\* environment
Sources(option, file, env) == [option |-> option, file |-> file, env |-> env]

FromFile == Sources(Undefined, Named("h"), Undefined)
FromEnv == Sources(Undefined, Spelled(<<" ">>), Spelled(<<" ", "h">>))
Missing == Sources(Undefined, Undefined, Undefined)
BlankEverywhere == Sources(Spelled(<<" ">>), Spelled(<<" ">>), Spelled(<<" ", " ">>))

NoRun == [n |-> 0, pc |-> "idle", status |-> "none", err |-> "", dryRun |-> FALSE,
          quiet |-> FALSE, built |-> FALSE, drafts |-> << >>, i |-> 0, blob |-> "",
          calls |-> << >>, marked |-> << >>, changedPaths |-> << >>,
          publishedCount |-> 0, commits |-> 0, summary |-> NoSummary,
          head0 |-> << >>, index0 |-> << >>, tree0 |-> << >>, log0 |-> << >>,
          remote0 |-> << >>, handle |-> Missing, baseUrl |-> Missing, listed |-> FALSE,
          password |-> FALSE]

\* ------------------------------------------------------- version control

\* the weight of a letter in the collation of the locale
Weight(letter) ==
    CASE letter = "c" -> 10
      [] letter = "d" -> 20
      [] letter = "h" -> 30
      [] letter = "ch" -> 35
      [] OTHER -> 40

\* the collation key of a name given by its letters: Czech sorts the digraph
\* ch as one letter after h, English as c followed by h
RECURSIVE CollationKey(_, _)
CollationKey(letters, locale) ==
    IF letters = << >> THEN << >>
    ELSE IF locale = "cs" /\ Len(letters) >= 2 /\ letters[1] = "c" /\ letters[2] = "h"
    THEN <<Weight("ch")>> \o CollationKey(SubSeq(letters, 3, Len(letters)), locale)
    ELSE <<Weight(Head(letters))>> \o CollationKey(Tail(letters), locale)

RECURSIVE KeyCompare(_, _)
KeyCompare(a, b) ==
    IF a = << >> THEN (IF b = << >> THEN 0 ELSE 0 - 1)
    ELSE IF b = << >> THEN 1
    ELSE IF Head(a) < Head(b) THEN 0 - 1
    ELSE IF Head(a) > Head(b) THEN 1
    ELSE KeyCompare(Tail(a), Tail(b))

\* a.localeCompare(b) under the default locale of the process
localeCompare(a, b, locale) ==
    KeyCompare(CollationKey(a, locale), CollationKey(b, locale))

Least(names, locale) ==
    CHOOSE a \in names : \A b \in names : localeCompare(a, b, locale) <= 0

RECURSIVE SortedNames(_, _)
SortedFrom(first, names, locale) ==
    <<first>> \o SortedNames(names \ {first}, locale)

\* names.sort((a, b) => a.localeCompare(b))
SortedNames(names, locale) ==
    IF names = {} THEN << >> ELSE SortedFrom(Least(names, locale), names, locale)

listMarkdownPosts(commit, postsDirSpec) ==
    SelectSeq(SortedPaths,
              LAMBDA path : /\ InCommit(commit, path)
                            /\ IsPrefix(postsDirSpec, path.dir)
                            /\ path.ext \in MARKDOWN_EXTENSIONS)

\* variant: git diff --cached only, the working tree is not looked at
assertGitRepoCleanIndexOnly(commit, staged, worktree) == staged = commit

\* variant: git diff only, staged changes are not looked at
assertGitRepoCleanTreeOnly(commit, staged, worktree) == worktree = staged

\* git status --porcelain prints nothing: nothing staged, modified or untracked
assertGitRepoClean(commit, staged, worktree) == staged = commit /\ worktree = staged

\* the first subject of git log that reads "AT proto publish <n>" decides
RECURSIVE getNextPublishCommitNumber(_)
getNextPublishCommitNumber(subjects) ==
    IF subjects = << >> THEN 1
    ELSE IF Head(subjects) > 0 THEN Head(subjects) + 1
    ELSE getNextPublishCommitNumber(Tail(subjects))

InSeq(x, seq) == \E k \in 1..Len(seq) : seq[k] = x

\* variant: git add of the first path only
GitAddFirst(staged, worktree, postPaths) ==
    [f \in Files |->
        IF postPaths # << >> /\ f = postPaths[1] THEN worktree[f] ELSE staged[f]]

\* git add -- postPaths
GitAdd(staged, worktree, postPaths) ==
    [f \in Files |-> IF InSeq(f, postPaths) THEN worktree[f] ELSE staged[f]]

\* --------------------------------------------------------- protocol client

\* a response: its status line, the kind of its body text ("empty", "blank",
\* "invalid" when JSON.parse throws, "nonobject" for JSON that is no object,
\* "object"), the object's message and error members, whether the members
\* the caller requires are there, whether the record URI has a record key
Response(status, statusText, body, message, error, complete, uriOk) ==
    [status |-> status, ok |-> status \in 200..299, statusText |-> statusText,
     body |-> body, message |-> message, error |-> error,
     complete |-> complete, uriOk |-> uriOk, blob |-> ""]

\* a response whose object has the blob member, a handle to what was uploaded
WithBlob(response, blob) == [response EXCEPT !.blob = blob]

Ok200 == Response(200, Named("OK"), "object", Undefined, Undefined, TRUE, TRUE)
BadUri200 == Response(200, Named("OK"), "object", Undefined, Undefined, TRUE, FALSE)
Incomplete200 == Response(200, Named("OK"), "empty", Undefined, Undefined, FALSE, FALSE)
Err500 ==
    Response(500, Named("Error"), "object", Named("down"), Undefined, FALSE, FALSE)
SessionResponses == {Ok200, Incomplete200, Err500}
BlobResponses == {WithBlob(Ok200, "b1"), WithBlob(Ok200, "b2"), Incomplete200, Err500}
RecordResponses == {Ok200, BadUri200, Incomplete200, Err500}

\* message ?? error ?? null of a parsed payload
extractApiError(response) ==
    IF response.body # "object" THEN Undefined
    ELSE IF resolveString(response.message) # Undefined
    THEN resolveString(response.message)
    ELSE resolveString(response.error)

\* the Error an API failure is reported with
ApiError(context, status, message, statusText) ==
    [kind |-> "api", context |-> context, status |-> status,
     message |-> IF message # Undefined THEN message ELSE statusText]

\* an Error whose text holds the context and a fixed or parser-made phrase
PlainError(kind, context) ==
    [kind |-> kind, context |-> context, status |-> 0, message |-> Undefined]

\* the Error parseJsonResponse throws, of kind "" when the parsed object is
\* returned: the body text is parsed before the status is looked at
JsonError(response, context) ==
    IF response.body = "invalid" THEN PlainError("json", context)
    ELSE IF ~response.ok
    THEN ApiError(context, response.status, extractApiError(response),
                  response.statusText)
    ELSE IF response.body = "nonobject" THEN PlainError("not-object", context)
    ELSE PlainError("", context)

\* "" when the parsed object is returned, else the kind of the error thrown
parseJsonResponse(response) == JsonError(response, "").kind

\* variant: the members of the parsed object are not looked at
CallErrorStatusOnly(response) == parseJsonResponse(response)

\* the error a remote call throws, "" when it returns: the response is
\* parsed, then its required fields are read
CallError(response) ==
    IF parseJsonResponse(response) # "" THEN parseJsonResponse(response)
    ELSE IF ~response.complete THEN "missing-fields"
    ELSE ""

\* the record key of the at:// URI, "" when the URI does not end in
\* /app.bsky.feed.post/<key> and an error is thrown
toBlueskyPostUrl(response) == IF response.uriOk THEN "rk1" ELSE ""

\* ------------------------------------------------------------ orchestrator

Options ==
    {[dryRun |-> FALSE, handle |-> FromFile, baseUrl |-> FromFile, password |-> TRUE],
     [dryRun |-> TRUE, handle |-> FromEnv, baseUrl |-> FromFile, password |-> FALSE],
     [dryRun |-> FALSE, handle |-> Missing, baseUrl |-> FromFile, password |-> TRUE],
     [dryRun |-> TRUE, handle |-> FromFile, baseUrl |-> BlankEverywhere,
      password |-> TRUE],
     [dryRun |-> FALSE, handle |-> FromFile, baseUrl |-> FromFile, password |-> FALSE]}

\* { ...loaded.config, ...extractConfigOverrides(options) }: an option that
\* is not null replaces the config file's member
Merged(sources) ==
    IF sources.option # Undefined THEN sources.option ELSE sources.file

\* resolveString(config.x) ?? resolveString(env.X)
Resolved(sources) ==
    IF resolveString(Merged(sources)) # Undefined
    THEN resolveString(Merged(sources))
    ELSE resolveString(sources.env)

\* variant: a setting that is not resolved takes a default
ConfigErrorDefaulted(handle, baseUrl) == ""

ConfigError(handle, baseUrl) ==
    IF handle = Undefined THEN "handle"
    ELSE IF baseUrl = Undefined THEN "baseUrl" ELSE ""

normalizeConfig(options) ==
    [err |-> ConfigError(Resolved(options.handle), Resolved(options.baseUrl)),
     postTextField |-> <<"post">>,
     postsRootSpec |-> PostsRootSpec]

\* variant: the flag is not looked at
StopsForDryRunNever(options) == FALSE

StopsForDryRun(options) == options.dryRun = TRUE

\* variant: an error thrown inside the loop is caught and the loop goes on
ThrowAndGoOn(run, err) ==
    IF run.pc = "loop"
    THEN [run EXCEPT !.blob = "", !.i = @ + 1,
                     !.pc = IF run.i = Len(run.drafts) THEN "commit" ELSE "loop"]
    ELSE [run EXCEPT !.pc = "idle", !.status = "failed", !.err = err]

\* an error thrown out of publish ends the run
Throw(run, err) == [run EXCEPT !.pc = "idle", !.status = "failed", !.err = err]

Return(run, summary) ==
    [run EXCEPT !.pc = "idle", !.status = "ok", !.summary = summary]

Summary(dryRun, totalPosts, queuedPosts, publishedPosts) ==
    [dryRun |-> dryRun, totalPosts |-> totalPosts,
     skippedPosts |-> totalPosts - queuedPosts,
     queuedPosts |-> queuedPosts, publishedPosts |-> publishedPosts]

\* a response with a success status whose body is a JSON object with the
\* members its caller reads
Accepted(response) ==
    /\ response.ok
    /\ response.body \in {"empty", "blank", "object"}
    /\ response.complete

\* the record of a remote call as it is issued
Call(run, op, response, blob) ==
    [run EXCEPT !.calls = Append(@, [op |-> op, at |-> run.i,
                                     ok |-> Accepted(response),
                                     blob |-> blob])]

\* variant: the record is built without the embed
EmbedNone(draft, blob) == ""

\* the blob of the record's embed, "" for a record without embed
Embed(draft, blob) ==
    IF draft.image # NoImage /\ blob # "" THEN blob ELSE ""

NewRun(options) ==
    [NoRun EXCEPT !.n = cur.n + 1, !.dryRun = options.dryRun, !.quiet = ~touched,
                  !.head0 = head, !.index0 = index, !.tree0 = tree, !.log0 = log,
                  !.remote0 = remote, !.handle = options.handle,
                  !.baseUrl = options.baseUrl, !.password = options.password]

\* publish from the draft list on, up to the first remote call
PublishDrafts(options, run, totalPosts, built) ==
    IF built.err # "" THEN Throw(run, built.err)
    ELSE IF Len(built.drafts) = 0
    THEN Return([run EXCEPT !.built = TRUE],
                Summary(options.dryRun = TRUE, totalPosts, 0, 0))
    ELSE IF StopsForDryRun(options)
    THEN Return([run EXCEPT !.built = TRUE, !.drafts = built.drafts],
                Summary(TRUE, totalPosts, Len(built.drafts), 0))
    ELSE IF ~assertGitRepoClean(head, index, tree)
    THEN Throw([run EXCEPT !.built = TRUE, !.drafts = built.drafts], "dirty")
    ELSE IF ~options.password
    THEN Throw([run EXCEPT !.built = TRUE, !.drafts = built.drafts], "password")
    ELSE [run EXCEPT !.built = TRUE, !.drafts = built.drafts,
                     !.pc = "session", !.status = "running"]

\* variant: the files are read from the working tree
readGitBytesFromWorktree(commit, worktree) == worktree

\* git show HEAD:<path> gives the blob of the commit, whatever the index and
\* the working tree hold
readGitBytes(commit, worktree) == commit

PublishPosts(options, run, config, postPaths) ==
    PublishDrafts(options, run, Len(postPaths),
                  buildDrafts(readGitBytes(head, tree), config, postPaths))

PublishConfigured(options, run, config) ==
    IF config.err # "" THEN Throw(run, config.err)
    ELSE PublishPosts(options, [run EXCEPT !.listed = TRUE], config,
                      listMarkdownPosts(head, config.postsRootSpec))

DocsA ==
    {Plain(Short), Plain(Fit), Plain(Over), Plain(Full), Plain(Huge), Plain(Accent),
     Plain(AccentFit), WithImage(Short, RefX), WithImage(Short, RefSlashX),
     WithImage(Short, RefOutside), WithImage(Short, RefUrl), WithImage(Short, RefData),
     WithImage(Short, RefNote), WithImage(Short, RefGone),
     Marked(Named("rk0"), Short, RefX), Marked(NullV, Short, RefX),
     Marked(Str(0, 0, NoLinks), Over, RefUrl),
     NestedMarker, BodyOnly, Unclosed, Malformed, NoText, Slugged(Short), NoFile}

DocsB ==
    {Crlf(Plain(Short)), Crlf(BodyOnly), Plain(Full), WithImage(Fit, RefUpX), Marked(NullV, Huge, RefOutside),
     Malformed, Unclosed}

\* every document of the first post beside a published post, every document
\* of the second beside a post that is ready to publish, and some pairs
InitHeads ==
    {Repo(a, Marked(Named("rk0"), Short, RefX), Png) : a \in DocsA}
    \cup {Repo(Plain(Short), b, Png) : b \in DocsB}
    \cup {Repo(BodyOnly, Crlf(Plain(Short)), Png),
          Repo(Marked(NullV, Short, RefX), Crlf(Plain(Short)), Png),
          Repo(WithImage(Short, RefX), Plain(Full), Png),
          Repo(WithImage(Short, RefNote), Plain(Full), Png),
          Repo(Malformed, Marked(NullV, Huge, RefOutside), Png),
          Repo(WithImage(Short, RefX), Plain(Short), NoFile)}

\* a history without publish commits, and one whose newest publish commit
\* does not carry the highest number
InitLogs == {<<0>>, <<1, 2, 0>>}

Init ==
    /\ head \in InitHeads
    /\ index = head
    /\ tree = head
    /\ log \in InitLogs
    /\ remote = [p \in Posts |-> 0]
    /\ cur = NoRun
    /\ prev = NoRun
    /\ touched = FALSE
    /\ envSteps = 0
    /\ lib = NoCall

\* publish, up to the first remote call
Publish(options) ==
    /\ cur.pc = "idle"
    /\ cur.n < MaxRuns
    /\ cur' = PublishConfigured(options, NewRun(options), normalizeConfig(options))
    /\ prev' = cur
    /\ touched' = FALSE
    /\ UNCHANGED <<head, index, tree, log, remote, envSteps, lib>>

CreateSession(response) ==
    /\ cur.pc = "session"
    /\ cur' = IF CallError(response) # ""
              THEN Throw(Call(cur, "createSession", response, ""),
                         CallError(response))
              ELSE [Call(cur, "createSession", response, "")
                        EXCEPT !.pc = "loop", !.i = 1]
    /\ UNCHANGED <<head, index, tree, log, remote, prev, touched, envSteps, lib>>

\* publishDraft's upload, for a draft that carries an image
UploadBlob(response) ==
    /\ cur.pc = "loop"
    /\ cur.drafts[cur.i].image # NoImage
    /\ cur.blob = ""
    /\ cur' = IF CallError(response) # ""
              THEN Throw(Call(cur, "uploadBlob", response, ""), CallError(response))
              ELSE [Call(cur, "uploadBlob", response, response.blob)
                        EXCEPT !.blob = response.blob]
    /\ UNCHANGED <<head, index, tree, log, remote, prev, touched, envSteps, lib>>

Written(worktree, postPath, source, next) ==
    [err |-> IF source = NoFile THEN "ENOENT" ELSE "",
     changed |-> next # source,
     worktree |-> [worktree EXCEPT ![postPath] = next]]

\* the working tree's file is read, the marker upserted, the file written
writePublishedAtUrl(worktree, postPath, atUrl) ==
    Written(worktree, postPath, worktree[postPath],
            upsertFrontmatterField(worktree[postPath], DEFAULT_AT_URL_FIELD, atUrl))

\* the loop's bookkeeping after the marker is written
Published(run, postPath, changed) ==
    [run EXCEPT !.marked = Append(@, postPath),
                !.changedPaths = IF changed THEN Append(@, postPath) ELSE @,
                !.publishedCount = @ + 1,
                !.blob = "",
                !.i = @ + 1,
                !.pc = IF run.i = Len(run.drafts) THEN "commit" ELSE "loop"]

MarkStep(called, postPath, written) ==
    IF written.err # ""
    THEN cur' = Throw(called, written.err) /\ tree' = tree
    ELSE cur' = Published(called, postPath, written.changed) /\ tree' = written.worktree

RecordStep(response, called, postPath, blueskyUrl) ==
    IF CallError(response) # ""
    THEN cur' = Throw(called, CallError(response)) /\ tree' = tree
    ELSE IF blueskyUrl = ""
    THEN cur' = Throw(called, "post-url") /\ tree' = tree
    ELSE MarkStep(called, postPath, writePublishedAtUrl(tree, postPath, blueskyUrl))

\* the rest of one loop iteration: createRecord, the post URL, the marker
CreateRecord(response) ==
    /\ cur.pc = "loop"
    /\ cur.drafts[cur.i].image # NoImage => cur.blob # ""
    /\ remote' = IF response.ok
                 THEN [remote EXCEPT ![cur.drafts[cur.i].path] = @ + 1]
                 ELSE remote
    /\ RecordStep(response,
                  Call(cur, "createRecord", response,
                       Embed(cur.drafts[cur.i], cur.blob)),
                  cur.drafts[cur.i].path, toBlueskyPostUrl(response))
    /\ UNCHANGED <<head, index, log, prev, touched, envSteps, lib>>

GitState(err, commit, staged, subjects) ==
    [err |-> err, head |-> commit, index |-> staged, log |-> subjects]

\* git commit -m message: fails when the index holds what HEAD holds
GitCommit(commit, staged, subjects, commitNumber) ==
    IF staged = commit THEN GitState("git-commit", commit, staged, subjects)
    ELSE GitState("", staged, staged, <<commitNumber>> \o subjects)

\* variant: an empty list of paths is left alone and reported as done
commitPublishedPostsOrNone(commit, staged, worktree, subjects, postPaths) ==
    IF Len(postPaths) = 0 THEN GitState("", commit, staged, subjects)
    ELSE GitCommit(commit, GitAdd(staged, worktree, postPaths), subjects,
                   getNextPublishCommitNumber(subjects))

\* the repository after commitPublishedPosts, with the error it throws
commitPublishedPosts(commit, staged, worktree, subjects, postPaths) ==
    IF Len(postPaths) = 0
    THEN GitState("nothing-to-commit", commit, staged, subjects)
    ELSE GitCommit(commit, GitAdd(staged, worktree, postPaths), subjects,
                   getNextPublishCommitNumber(subjects))

CommitStep(done) ==
    /\ head' = done.head
    /\ index' = done.index
    /\ log' = done.log
    /\ cur' = IF done.err # "" THEN Throw(cur, done.err)
              ELSE Return([cur EXCEPT !.commits = @ + 1],
                          Summary(FALSE,
                                  Len(listMarkdownPosts(cur.head0, PostsRootSpec)),
                                  Len(cur.drafts), cur.publishedCount))

\* commitPublishedPosts and publish's return
Commit ==
    /\ cur.pc = "commit"
    /\ CommitStep(commitPublishedPosts(head, index, tree, log, cur.changedPaths))
    /\ UNCHANGED <<tree, remote, prev, touched, envSteps, lib>>

\* -------------------------------------------- manual changes between runs

EditDocs(f) ==
    IF f = PostA THEN {Slugged(Short)}
    ELSE IF f = PostB THEN {NoFile}
    ELSE {}

\* a file is edited, created or deleted in the working tree
EnvEdit(f, d) ==
    /\ cur.pc = "idle"
    /\ envSteps < MaxEnv
    /\ tree[f] # d
    /\ tree' = [tree EXCEPT ![f] = d]
    /\ touched' = TRUE
    /\ envSteps' = envSteps + 1
    /\ UNCHANGED <<head, index, log, remote, cur, prev, lib>>

\* git add -A
EnvStage ==
    /\ cur.pc = "idle"
    /\ envSteps < MaxEnv
    /\ index # tree
    /\ index' = tree
    /\ touched' = TRUE
    /\ envSteps' = envSteps + 1
    /\ UNCHANGED <<head, tree, log, remote, cur, prev, lib>>

\* a subject of the user's; the histories with publish subjects out of order
\* are those of InitLogs
Subjects == {0}

\* git add -A && git commit -m subject
EnvCommit(subject) ==
    /\ cur.pc = "idle"
    /\ envSteps < MaxEnv
    /\ tree # head
    /\ index' = tree
    /\ head' = tree
    /\ log' = <<subject>> \o log
    /\ touched' = TRUE
    /\ envSteps' = envSteps + 1
    /\ UNCHANGED <<tree, remote, cur, prev, lib>>

\* git reset --hard && git clean -fd
EnvReset ==
    /\ cur.pc = "idle"
    /\ envSteps < MaxEnv
    /\ ~assertGitRepoClean(head, index, tree)
    /\ index' = head
    /\ tree' = head
    /\ touched' = TRUE
    /\ envSteps' = envSteps + 1
    /\ UNCHANGED <<head, log, remote, cur, prev, lib>>

Next ==
    \/ \E options \in Options : Publish(options)
    \/ \E response \in SessionResponses : CreateSession(response)
    \/ \E response \in BlobResponses : UploadBlob(response)
    \/ \E response \in RecordResponses : CreateRecord(response)
    \/ Commit
    \/ \E f \in Files : \E d \in EditDocs(f) : EnvEdit(f, d)
    \/ EnvStage
    \/ \E subject \in Subjects : EnvCommit(subject)
    \/ EnvReset

Spec == Init /\ [][Next]_vars

\* ============================================================ library calls

\* The exported functions applied directly, as the tests do, and the other
\* functions of the engine on their own, to inputs drawn from the sets
\* below; the repository stays as it is.  A behaviour is one
\* call and what is then applied to its result: the functions keep no state.

MaxCalls == 2

Texts ==
    {Short, Str(40, 40, {<<"a">>}), Str(40, 40, {<<"a", "b">>}),
     Str(40, 41, {<<"b">>, BaseUrl})}

Urls == {BaseUrl, <<"a">>, <<"b">>, <<"a", "b">>}

engine == <<head, index, tree, log, remote, cur, prev, touched, envSteps>>

Called(fn, x, y, z, out) ==
    [fn |-> fn, x |-> x, y |-> y, z |-> z, first |-> out, out |-> out, n |-> 1]

InitLib ==
    /\ head = Repo(Plain(Short), Plain(Short), Png)
    /\ index = head
    /\ tree = head
    /\ log = <<0>>
    /\ remote = [p \in Posts |-> 0]
    /\ cur = NoRun
    /\ prev = NoRun
    /\ touched = FALSE
    /\ envSteps = 0
    /\ lib = NoCall

AppendBacklink(text, backlinkUrl) ==
    /\ lib.n = 0
    /\ lib' = Called("appendBacklink", text, backlinkUrl, << >>,
                     appendBacklink(text, backlinkUrl))
    /\ UNCHANGED engine

\* the function is applied to its own result, with the same other arguments
Reapplied(call, out) == [call EXCEPT !.out = out, !.n = call.n + 1]

AppendBacklinkAgain ==
    /\ lib.fn = "appendBacklink"
    /\ lib.n < MaxCalls
    /\ lib' = Reapplied(lib, appendBacklink(lib.out, lib.y))
    /\ UNCHANGED engine

\* a block that holds the key twice
Doubled ==
    <<Delim, KV("AT_URL", Named("rk0")), KV("post", Short), KV("AT_URL", Named("rk1")),
      Delim, Txt(Short), Blank>>

\* the empty text
Empty == <<Blank>>

\* texts with a closed block, with an unclosed one and with none, ending with
\* a line feed or not, with LF and with CRLF line endings
Markdowns ==
    {Plain(Short), Crlf(Plain(Short)), WithImage(Short, RefX), Crlf(WithImage(Short, RefX)),
     Marked(Named("rk0"), Short, RefX), Crlf(Marked(Named("rk1"), Short, RefX)),
     NestedMarker, Doubled, BodyOnly, Crlf(BodyOnly), Unclosed, Crlf(Unclosed),
     <<Txt(Short)>>, <<Delim, Delim>>, Empty}

Fields == {DEFAULT_AT_URL_FIELD, "post"}

FieldValues == {"rk0", "rk1"}

UpsertFrontmatterField(markdown, field, value) ==
    /\ lib.n = 0
    /\ lib' = Called("upsertFrontmatterField", markdown, field, value,
                     upsertFrontmatterField(markdown, field, value))
    /\ UNCHANGED engine

UpsertFrontmatterFieldAgain ==
    /\ lib.fn = "upsertFrontmatterField"
    /\ lib.n < MaxCalls
    /\ lib' = Reapplied(lib, upsertFrontmatterField(lib.out, lib.y, lib.z))
    /\ UNCHANGED engine

\* z is the text the stripped text was made from by an upsert of the same
\* field, NoFile when the text is stripped as it is
StripFrontmatterField(markdown, field) ==
    /\ lib.n = 0
    /\ lib' = Called("stripFrontmatterField", markdown, field, NoFile,
                     stripFrontmatterField(markdown, field))
    /\ UNCHANGED engine

StripUpserted ==
    /\ lib.fn = "upsertFrontmatterField"
    /\ lib.n = 1
    /\ lib' = Called("stripFrontmatterField", lib.out, lib.y, lib.x,
                     stripFrontmatterField(lib.out, lib.y))
    /\ UNCHANGED engine

\* posts/a.md, posts/b/index.md, readme.md, site/posts/weekly note.markdown,
\* posts/2026-02-01-launch.md, posts/index.md, posts/notes.md.markdown,
\* posts/.md.markdown
PostPaths ==
    {PostA, PostB, Path(<< >>, "readme", ".md"),
     Path(<<"site", "posts">>, "weekly note", ".markdown"),
     Path(<<"posts">>, "2026-02-01-launch", ".md"),
     Path(<<"posts">>, "index", ".md"),
     Path(<<"posts">>, "notes.md", ".markdown"),
     Path(<<"posts">>, ".md", ".markdown")}

\* references inside and outside the repository, and URLs: https://cdn/x.png,
\* HTTPS://cdn/x.png, data:..., s3://bucket/x.png
AssetPaths ==
    {RefX, RefSlashX, RefUpX, RefOutside, RefUrl, RefData, RefNote, RefGone,
     Ref("HTTPS:", 0, <<"cdn">>, "x", ".png"),
     Ref("s3:", 0, <<"bucket">>, "x", ".png"),
     Ref("", 0, <<"img", "..", "..", "..", "..", "posts">>, "x", ".png"),
     Ref("", 1, <<"..">>, "x", ".png"),
     Ref("", 1, <<"img", "..">>, "x", ".png"),
     Ref("", 0, <<"..", "..", "..">>, "", ""),
     Ref("", 2, <<"etc">>, "x", ".png"),
     Ref("", 3, <<"..", "img", ".">>, "x", ".png"),
     Ref("", 0, <<".", "img", ".", "">>, "x", ".png")}

ResolveGitRelativePath(postPath, assetPath) ==
    /\ lib.n = 0
    /\ lib' = Called("resolveGitRelativePath", postPath, assetPath, << >>,
                     resolveGitRelativePath(postPath, assetPath))
    /\ UNCHANGED engine

PostsRootSpecs == {PostsRootSpec, <<".">>, <<".", "posts", "">>, <<"site", "posts">>}

\* a post with the given slug lines in its block
WithSlug(slugLines) == <<Delim>> \o slugLines \o <<KV("post", Short), Delim, Blank>>

\* slug: foo, "/weekly note/", " /updates/weekly note/ ", a//b, "/", " ",
\* "", null, none, and bluesky.slug alone or after a blank slug
SlugPosts ==
    {WithSlug(<<KV("slug", Named("foo"))>>),
     WithSlug(<<KV("slug", Spelled(<<"/", "weekly note", "/">>))>>),
     WithSlug(<<KV("slug", Spelled(<<" ", "/", "updates", "/", "weekly note", "/", " ">>))>>),
     WithSlug(<<KV("slug", Spelled(<<"a", "/", "/", "b">>))>>),
     WithSlug(<<KV("slug", Spelled(<<"/">>))>>),
     WithSlug(<<KV("slug", Spelled(<<" ">>))>>),
     WithSlug(<<KV("slug", Spelled(<< >>))>>),
     WithSlug(<<KV("slug", NullV)>>),
     WithSlug(<< >>),
     WithSlug(<<KV("bluesky", NullV), Sub("slug", Named("foo"))>>),
     WithSlug(<<KV("slug", Spelled(<<" ">>)), KV("bluesky", NullV),
                Sub("slug", Spelled(<<"weekly note">>))>>),
     BodyOnly}

\* z is the text whose frontmatter is passed
ResolveBacklinkUrl(postPath, postsRootSpec, markdown) ==
    /\ lib.n = 0
    /\ lib' = Called("resolveBacklinkUrl", postPath, postsRootSpec, markdown,
                     resolveBacklinkUrl(postPath, postsRootSpec,
                                        splitFrontmatter(markdown).frontmatter))
    /\ UNCHANGED engine

\* buildDrafts for one post of a commit that holds the post and the image; z
\* is the post's text
BuildDrafts(postPath, postsRootSpec, markdown) ==
    /\ lib.n = 0
    /\ lib' = Called("buildDrafts", postPath, postsRootSpec, markdown,
                     buildDrafts((postPath :> markdown) @@ (ImageX :> Png),
                                 [err |-> "", postTextField |-> <<"post">>,
                                  postsRootSpec |-> postsRootSpec],
                                 <<postPath>>))
    /\ UNCHANGED engine

\* the line of a key, none for an absent key
KeyLine(key, value) == IF value = Undefined THEN << >> ELSE <<KV(key, value)>>

NestedLine(parent, key, value) ==
    IF value = Undefined THEN << >> ELSE <<KV(parent, NullV), Sub(key, value)>>

\* a post with the four text fields summary, bluesky.text, text and post,
\* each absent, blank or a text of its own length
Tiered(summary, nested, text, post, body) ==
    <<Delim>> \o KeyLine("summary", summary) \o NestedLine("bluesky", "text", nested)
        \o KeyLine("text", text) \o KeyLine("post", post) \o <<Delim>> \o body

TierValues(text) == {Undefined, Spelled(<<" ">>), text}

Bodies == {<<Txt(Short), Img(RefX), Blank>>, <<Img(RefX), Blank>>}

TextPosts ==
    {Tiered(summary, nested, text, post, body) :
        summary \in TierValues(Str(21, 21, NoLinks)),
        nested \in TierValues(Str(22, 22, NoLinks)),
        text \in TierValues(Str(23, 23, NoLinks)),
        post \in TierValues(Str(24, 24, NoLinks)),
        body \in Bodies}
    \cup {Tiered(NullV, Undefined, Str(0, 0, NoLinks), Str(24, 24, NoLinks), body) :
              body \in Bodies}
    \cup {BodyOnly, <<Img(RefX)>>}

PostTextFields == {<<"summary">>, <<"post">>, <<"bluesky", "text">>}

ParsePostFields(markdown, postTextField) ==
    /\ lib.n = 0
    /\ lib' = Called("parsePostFields", markdown, postTextField, << >>,
                     parsePostFields(markdown, postTextField))
    /\ UNCHANGED engine

Statuses == {200, 404, 502}
StatusTexts == {Named("Error"), Str(0, 0, NoLinks)}
BodyKinds == {"empty", "blank", "invalid", "nonobject", "object"}
Members == {Undefined, Named("m"), Spelled(<<" ">>), MapV}
Contexts == {"create session", "upload blob", "create record for posts/a.md"}

\* a response of every status and body; only an object has members
LibResponses ==
    {Response(status, statusText, body, message, error, TRUE, TRUE) :
        status \in Statuses, statusText \in StatusTexts, body \in BodyKinds,
        message \in Members, error \in Members}

ParseJsonResponse(response, context) ==
    /\ lib.n = 0
    /\ response.body # "object"
          => (response.message = Undefined /\ response.error = Undefined)
    /\ lib' = Called("parseJsonResponse", response, context, << >>,
                     JsonError(response, context))
    /\ UNCHANGED engine

SourceValues == {Undefined, Spelled(<<" ">>), Named("h"), Spelled(<<" ", "h">>)}
Settings ==
    {Sources(option, file, env) :
        option \in SourceValues, file \in SourceValues, env \in SourceValues}
BaseUrlSettings == {FromFile, FromEnv, Missing, BlankEverywhere}

NormalizeConfig(handle, baseUrl) ==
    /\ lib.n = 0
    /\ lib' = Called("normalizeConfig", handle, baseUrl, << >>,
                     normalizeConfig([handle |-> handle, baseUrl |-> baseUrl]))
    /\ UNCHANGED engine

\* the text an upsert of the marker made is split: x is that text, y the
\* value written, z the text before the upsert
SplitUpserted ==
    /\ lib.fn = "upsertFrontmatterField"
    /\ lib.n = 1
    /\ lib.y = DEFAULT_AT_URL_FIELD
    /\ lib' = Called("splitFrontmatter", lib.out, lib.z, lib.x,
                     splitFrontmatter(lib.out))
    /\ UNCHANGED engine

\* posts/c.md, posts/ch.md, posts/d.md, posts/h.md by the letters of their
\* names
Names == {<<"c">>, <<"c", "h">>, <<"d">>, <<"h">>}
Locales == {"en", "cs"}

\* the markdown files of a commit are listed by a process with the locale
ListMarkdownPosts(names, locale) ==
    /\ lib.n = 0
    /\ names # {}
    /\ lib' = Called("listMarkdownPosts", names, locale, locale,
                     SortedNames(names, locale))
    /\ UNCHANGED engine

\* the same commit is listed again; z is the locale of the second process
ListMarkdownPostsAgain(locale) ==
    /\ lib.fn = "listMarkdownPosts"
    /\ lib.n = 1
    /\ lib' = [Reapplied(lib, SortedNames(lib.x, locale)) EXCEPT !.z = locale]
    /\ UNCHANGED engine

\* the working tree as it is and with a marker written into the first post
Worktrees == {head, [head EXCEPT ![PostA] = Marked(Named("rk1"), Short, RefX)]}
ChangedPathLists == {<< >>, <<PostA>>, <<PostA, PostB>>}

\* commitPublishedPosts on the repository as it is with the given working
\* tree; the outcome is kept as a value
CommitPublishedPosts(worktree, postPaths) ==
    /\ lib.n = 0
    /\ lib' = Called("commitPublishedPosts", worktree, postPaths, << >>,
                     commitPublishedPosts(head, index, worktree, log, postPaths))
    /\ UNCHANGED engine

NextLib ==
    \/ \E text \in Texts : \E backlinkUrl \in Urls : AppendBacklink(text, backlinkUrl)
    \/ AppendBacklinkAgain
    \/ \E markdown \in Markdowns : \E field \in Fields : \E value \in FieldValues :
          UpsertFrontmatterField(markdown, field, value)
    \/ UpsertFrontmatterFieldAgain
    \/ \E markdown \in Markdowns : \E field \in Fields :
          StripFrontmatterField(markdown, field)
    \/ StripUpserted
    \/ SplitUpserted
    \/ \E postPath \in PostPaths : \E assetPath \in AssetPaths :
          ResolveGitRelativePath(postPath, assetPath)
    \/ \E postPath \in PostPaths : \E postsRootSpec \in PostsRootSpecs :
          \E markdown \in SlugPosts :
              ResolveBacklinkUrl(postPath, postsRootSpec, markdown)
    \/ \E postPath \in PostPaths : \E postsRootSpec \in PostsRootSpecs :
          \E markdown \in SlugPosts :
              BuildDrafts(postPath, postsRootSpec, markdown)
    \/ \E markdown \in TextPosts : \E postTextField \in PostTextFields :
          ParsePostFields(markdown, postTextField)
    \/ \E response \in LibResponses : \E context \in Contexts :
          ParseJsonResponse(response, context)
    \/ \E handle \in Settings : \E baseUrl \in BaseUrlSettings :
          NormalizeConfig(handle, baseUrl)
    \/ \E names \in SUBSET Names : \E locale \in Locales :
          ListMarkdownPosts(names, locale)
    \/ \E locale \in Locales : ListMarkdownPostsAgain(locale)
    \/ \E worktree \in Worktrees : \E postPaths \in ChangedPathLists :
          CommitPublishedPosts(worktree, postPaths)

SpecLib == InitLib /\ [][NextLib]_vars

\* ============================================================== properties

ConfigErrors == {"handle", "baseUrl"}

ValidationErrors ==
    {"yaml", "missing-text", "too-long", "too-long-with-backlink",
     "scheme", "outside", "git-show", "mime"}

RemoteOps == {"uploadBlob", "createRecord"}

ValidConfig ==
    normalizeConfig([dryRun |-> FALSE, handle |-> FromFile, baseUrl |-> FromFile,
                     password |-> TRUE])

\* nothing in the repository differs from what the run found
Untouched(run) ==
    head = run.head0 /\ index = run.index0 /\ tree = run.tree0 /\ log = run.log0

DraftPaths(run) == {run.drafts[k].path : k \in 1..Len(run.drafts)}

\* the frontmatter block of the file has a key line AT_URL at column 0
TopLevelMarker(lines) ==
    /\ OpensBlock(lines)
    /\ ClosingIndex(lines) # 0
    /\ \E i \in 2..(ClosingIndex(lines) - 1) :
          lines[i].k = "kv" /\ lines[i].ind = 0 /\ lines[i].key = "AT_URL"

NoMarkedDraft(commit, drafts) ==
    \A k \in 1..Len(drafts) : ~TopLevelMarker(commit[drafts[k].path])

\* C1: no draft is built for a post whose frontmatter at HEAD has a top-level
\* AT_URL key, whatever its value, text or image; no uploadBlob or
\* createRecord call of any run is for such a post.
C1_MarkedPostsSkipped ==
    /\ NoMarkedDraft(cur.head0, cur.drafts)
    /\ \A j \in 1..Len(cur.calls) :
          cur.calls[j].op \in RemoteOps
              => ~TopLevelMarker(cur.head0[cur.drafts[cur.calls[j].at].path])

\* a run published the other post while this one carried AT_URL: null
C1_Witness ==
    /\ cur.status = "ok"
    /\ cur.commits = 1
    /\ cur.head0[PostA] = Marked(NullV, Short, RefX)
    /\ DraftPaths(cur) = {PostB}
    /\ remote[PostA] = 0
    /\ remote[PostB] = 1

\* C2: after a run that published every draft and committed, the next run on
\* the unchanged repository builds no draft, issues no remote call, writes
\* no file and creates no commit.
C2_PublishIsIdempotent ==
    (/\ cur.n >= 2
     /\ cur.quiet
     /\ prev.status = "ok"
     /\ ~prev.dryRun
     /\ prev.commits = 1)
    => /\ cur.pc = "idle"
       /\ cur.calls = << >>
       /\ cur.marked = << >>
       /\ cur.commits = 0
       /\ remote = cur.remote0
       /\ cur.err \notin ConfigErrors
             => /\ cur.status = "ok"
                /\ cur.built
                /\ cur.drafts = << >>
                /\ cur.summary.queuedPosts = 0
                /\ cur.summary.publishedPosts = 0
       /\ ~touched => Untouched(cur)

C2_Witness ==
    /\ cur.n = 2
    /\ cur.quiet
    /\ ~cur.dryRun
    /\ cur.status = "ok"
    /\ prev.status = "ok"
    /\ prev.commits = 1
    /\ Len(prev.drafts) = 2
    /\ cur.summary.totalPosts = 2

Dirty(run) == run.index0 # run.head0 \/ run.tree0 # run.index0

\* C3: a non-dry run with at least one draft that finds a modified, staged or
\* untracked change fails before any remote call, changes no file and
\* creates no commit.
C3_DirtyTreeStopsPublish ==
    (/\ cur.n >= 1
     /\ ~cur.dryRun
     /\ Len(cur.drafts) >= 1
     /\ Dirty(cur))
    => /\ cur.pc = "idle"
       /\ cur.status = "failed"
       /\ cur.err = "dirty"
       /\ cur.calls = << >>
       /\ cur.marked = << >>
       /\ cur.commits = 0
       /\ ~touched => Untouched(cur)

\* the change the run found was staged, and nothing else was changed
C3_Witness ==
    /\ cur.err = "dirty"
    /\ Len(cur.drafts) >= 1
    /\ cur.index0 # cur.head0
    /\ cur.tree0 = cur.index0
    /\ Untouched(cur)

Queued(commit) ==
    {p \in Posts : InCommit(commit, p) /\ ~DraftOf(commit, ValidConfig, p).skip}

\* C4: a dry run issues no remote call, writes no file and creates no commit,
\* in a clean or a dirty repository; once the drafts are built it returns a
\* summary with publishedPosts = 0 and queuedPosts = the number of drafts.
C4_DryRunStopsAfterDrafts ==
    (cur.n >= 1 /\ cur.dryRun)
    => /\ cur.pc = "idle"
       /\ cur.calls = << >>
       /\ cur.marked = << >>
       /\ cur.commits = 0
       /\ ~touched => Untouched(cur)
       /\ cur.err \notin (ConfigErrors \cup ValidationErrors)
             => /\ cur.status = "ok"
                /\ cur.summary.dryRun
                /\ cur.summary.publishedPosts = 0
                /\ cur.summary.queuedPosts = Cardinality(Queued(cur.head0))
                /\ cur.summary.queuedPosts = Len(cur.drafts)

\* a dry run over a dirty working tree reported two drafts
C4_Witness ==
    /\ cur.dryRun
    /\ cur.status = "ok"
    /\ cur.tree0 # cur.head0
    /\ cur.summary.queuedPosts = 2
    /\ Untouched(cur)

Invalid(commit) ==
    {p \in Posts : InCommit(commit, p) /\ DraftOf(commit, ValidConfig, p).err # ""}

\* C5: when any post at HEAD fails validation the whole run fails before any
\* remote call, writes no file and creates no commit, even when other posts
\* are valid.
C5_OneBadPostFailsTheRun ==
    (/\ cur.n >= 1
     /\ cur.err \notin ConfigErrors
     /\ Invalid(cur.head0) # {})
    => /\ cur.pc = "idle"
       /\ cur.status = "failed"
       /\ cur.err \in ValidationErrors
       /\ cur.calls = << >>
       /\ cur.marked = << >>
       /\ cur.commits = 0
       /\ ~touched => Untouched(cur)

\* the run failed on one post while the other was a valid, unpublished draft
C5_Witness ==
    /\ cur.status = "failed"
    /\ ~cur.dryRun
    /\ Invalid(cur.head0) = {PostA}
    /\ Queued(cur.head0) = {PostA, PostB}
    /\ assertGitRepoClean(cur.head0, cur.index0, cur.tree0)
    /\ Untouched(cur)

FailedRemoteCall(run, j) ==
    run.calls[j].op \in RemoteOps /\ ~run.calls[j].ok

\* the files of the drafts from position i on are as the run found them
LaterDraftsUnmarked(run, i) ==
    \A k \in i..Len(run.drafts) :
        tree[run.drafts[k].path] = run.tree0[run.drafts[k].path]

\* C6: once uploadBlob or createRecord fails for the draft at position i, no
\* further remote call is issued in the run (that call again, or one for a
\* later draft), no marker is written for draft i or a later one, and the
\* run creates no commit.
C6_NoContinuationAfterFailure ==
    \A j \in 1..Len(cur.calls) :
        FailedRemoteCall(cur, j)
        => /\ j = Len(cur.calls)
           /\ cur.pc = "idle"
           /\ cur.status = "failed"
           /\ cur.commits = 0
           /\ Len(cur.marked) = cur.calls[j].at - 1
           /\ \A k \in 1..Len(cur.marked) : cur.marked[k] = cur.drafts[k].path
           /\ ~touched => /\ head = cur.head0
                          /\ log = cur.log0
                          /\ LaterDraftsUnmarked(cur, cur.calls[j].at)

\* createRecord failed for the first of two drafts
C6_Witness ==
    /\ Len(cur.drafts) = 2
    /\ Len(cur.calls) = 2
    /\ cur.calls[2].op = "createRecord"
    /\ cur.calls[2].at = 1
    /\ ~cur.calls[2].ok
    /\ ~touched
    /\ \A p \in Posts : remote[p] = 0

MarkersUncommitted(run) ==
    \A k \in 1..Len(run.marked) :
        /\ TopLevelMarker(tree[run.marked[k]])
        /\ ~TopLevelMarker(head[run.marked[k]])
        /\ run.marked[k] = run.drafts[k].path

\* C7: when a run aborts after marking at least one draft, HEAD is unchanged
\* and the working tree holds the uncommitted markers; the next non-dry run,
\* with nothing done by hand in between, fails the clean-tree check without a
\* remote call, and no marked draft is published a second time.
C7_PartialFailureBlocksNextRun ==
    /\ (cur.status = "failed" /\ Len(cur.marked) >= 1 /\ ~touched)
       => /\ head = cur.head0
          /\ index = cur.head0
          /\ log = cur.log0
          /\ MarkersUncommitted(cur)
          /\ \A f \in Files \ {cur.marked[k] : k \in 1..Len(cur.marked)} :
                tree[f] = cur.tree0[f]
    /\ (/\ cur.n >= 2
        /\ cur.quiet
        /\ ~cur.dryRun
        /\ cur.err \notin ConfigErrors
        /\ prev.status = "failed"
        /\ Len(prev.marked) >= 1)
       => /\ cur.pc = "idle"
          /\ cur.status = "failed"
          /\ cur.err = "dirty"
          /\ cur.calls = << >>
          /\ cur.commits = 0
          /\ remote = cur.remote0
          /\ \A k \in 1..Len(prev.marked) :
                remote[prev.marked[k]] = prev.remote0[prev.marked[k]] + 1
          /\ ~touched => Untouched(cur)

\* the second run found the marker of the first draft of an aborted run
C7_Witness ==
    /\ cur.n = 2
    /\ cur.quiet
    /\ cur.err = "dirty"
    /\ prev.status = "failed"
    /\ Len(prev.marked) = 1
    /\ Len(prev.drafts) = 2
    /\ remote[PostA] = 1
    /\ remote[PostB] = 0
    /\ ~touched

MarkerLine(line) ==
    /\ line.k = "kv"
    /\ line.ind = 0
    /\ line.key = DEFAULT_AT_URL_FIELD
    /\ line.v.t = "str"
    /\ ~line.cr

\* new is old with one marker line more
OneLineAdded(old, new) ==
    /\ Len(new) = Len(old) + 1
    /\ \E k \in 1..Len(new) :
          /\ MarkerLine(new[k])
          /\ \A i \in 1..Len(old) : new[IF i < k THEN i ELSE i + 1] = old[i]

\* new is old with the marker line written into its frontmatter block: before
\* the closing delimiter, the line endings becoming LF, or in a new block of
\* three lines in front of a file that has no block
MarkerWritten(old, new) ==
    IF OpensBlock(old) /\ ClosingIndex(old) # 0
    THEN /\ OneLineAdded(Split(old), new)
         /\ MarkerLine(new[ClosingIndex(old)])
    ELSE /\ Len(new) = Len(old) + 3
         /\ new[1] = Delim
         /\ MarkerLine(new[2])
         /\ new[3] = Delim
         /\ SubSeq(new, 4, Len(new)) = old

PublishedAll(run) ==
    run.status = "ok" /\ ~run.dryRun /\ Len(run.drafts) >= 1

\* the one commit of a run that published every draft, its files and the
\* state it leaves
OneCommit(run) ==
    /\ run.commits = 1
    /\ Len(log) = Len(run.log0) + 1
    /\ log[1] > 0
    /\ Tail(log) = run.log0
    /\ Len(run.marked) = Len(run.drafts)
    /\ \A f \in Files \ DraftPaths(run) : head[f] = run.head0[f]
    /\ index = head
    /\ tree = head

Counters(subjects) == {subjects[i] : i \in 1..Len(subjects)} \cup {0}

\* C9: the number of a new publish commit is 1 + the highest number of all
\* earlier publish commits (1 when there is none), in whatever order they
\* appear in the history.
C9_NextNumberIsMaxPlusOne ==
    (PublishedAll(cur) /\ ~touched)
    => /\ log[1] = 1 + MaxOf(Counters(cur.log0))
       /\ \A i \in 1..Len(cur.log0) : log[1] > cur.log0[i]

\* the posts at HEAD whose text, before or after the backlink is appended,
\* exceeds the limit in grapheme units
OverLimit(commit, p, text) ==
    \/ text.g > MaxPostChars
    \/ appendBacklink(text,
                      resolveBacklinkUrl(p, PostsRootSpec,
                                         splitFrontmatter(commit[p]).frontmatter)).g
          > MaxPostChars

TooLongPosts(commit) ==
    {p \in Queued(commit) :
        /\ splitFrontmatter(commit[p]).ok
        /\ OverLimit(commit, p, parsePostFields(commit[p], <<"post">>).text)}

\* C10: every draft's outbound text is at most 300 grapheme units; a post of
\* 301 units, before or after the backlink is appended, fails the run; a post
\* is not refused for its length when its final text is 300 units or fewer.
C10_LimitIs300Graphemes ==
    cur.n >= 1
    => /\ \A k \in 1..Len(cur.drafts) : cur.drafts[k].text.g <= MaxPostChars
       /\ (cur.err \notin ConfigErrors /\ TooLongPosts(cur.head0) # {})
             => cur.status = "failed" /\ cur.err \in ValidationErrors
       /\ cur.err \in {"too-long", "too-long-with-backlink"}
             => TooLongPosts(cur.head0) # {}

\* ---------------------------------------------------------------------- C11
\* C11: appendBacklink(t, u) contains u; it is t itself when t contains u,
\* else t followed by a blank line (two line feeds) and u; applied again to
\* its result with the same u it returns that result, so u is added at most
\* once.
C11_BacklinkAppendedOnce ==
    lib.fn = "appendBacklink" =>
        /\ Includes(lib.out, lib.y)
        /\ lib.out = lib.first
        /\ Includes(lib.x, lib.y) => lib.first = lib.x
        /\ ~Includes(lib.x, lib.y) =>
              /\ lib.first.cp = lib.x.cp + 2 + UrlLen(lib.y)
              /\ lib.first.g = lib.x.g + 2 + UrlLen(lib.y)
              /\ lib.first.links = lib.x.links \cup {lib.y}

C11_Witness ==
    /\ lib.fn = "appendBacklink"
    /\ lib.n = 2
    /\ ~Includes(lib.x, lib.y)
    /\ lib.x.links # {}
    /\ lib.out.cp = lib.x.cp + 2 + UrlLen(lib.y)

\* ---------------------------------------------------------------------- C12
\* the number of lines 'field:' at column 0 inside the closed block
KeyLines(markdown, field) ==
    Cardinality({i \in 2..(ClosingIndex(markdown) - 1) :
                    /\ OpensBlock(markdown)
                    /\ markdown[i].k = "kv" /\ markdown[i].ind = 0
                    /\ markdown[i].key = field})

\* C12: upsertFrontmatterField applied again to its own result with the same
\* key and value returns that result, whatever the text (closed block,
\* unclosed block, none), and the block of a result never holds more lines of
\* the key than the larger of 1 and the number the text had.
C12_UpsertIsIdempotent ==
    lib.fn = "upsertFrontmatterField" =>
        /\ lib.out = lib.first
        /\ KeyLines(lib.out, lib.y) <= MaxOf({1, KeyLines(lib.x, lib.y)})

\* the second part of C12 alone
C12_KeyNotDuplicated ==
    lib.fn = "upsertFrontmatterField" =>
        KeyLines(lib.out, lib.y) <= MaxOf({1, KeyLines(lib.x, lib.y)})

\* C12 for texts that have no CRLF line ending
C12_IdempotentOnLf ==
    (lib.fn = "upsertFrontmatterField" /\ lib.x = Split(lib.x)) => lib.out = lib.first

\* ---------------------------------------------------------------------- C13
HasClosedBlock(markdown) == OpensBlock(markdown) /\ ClosingIndex(markdown) # 0

FirstKeyLine(markdown, field) ==
    FirstOrZero({i \in 2..(ClosingIndex(markdown) - 1) :
                    /\ markdown[i].k = "kv" /\ markdown[i].ind = 0
                    /\ markdown[i].key = field})

\* the text with line at replaced by the new line, or with the new line put in
\* before the closing delimiter (at = 0); nothing else differs
OneLineChanged(markdown, newLine, at) ==
    IF at # 0 THEN [markdown EXCEPT ![at] = newLine]
    ELSE SubSeq(markdown, 1, ClosingIndex(markdown) - 1)
            \o <<newLine>>
            \o SubSeq(markdown, ClosingIndex(markdown), Len(markdown))

\* what the claim allows as result; the new line may end with LF or CR LF
UpsertedAsClaimed(markdown, field, value) ==
    IF HasClosedBlock(markdown)
    THEN {OneLineChanged(markdown, [KV(field, Named(value)) EXCEPT !.cr = cr],
                         FirstKeyLine(markdown, field)) : cr \in BOOLEAN}
    ELSE IF markdown = Empty THEN {<<Delim, KV(field, Named(value)), Delim>>}
    ELSE {<<Delim, KV(field, Named(value)), Delim>> \o markdown}

\* C13: upsertFrontmatterField changes at most one line: with a closed block
\* the result is the input with the first line of the key in the block
\* replaced by key: "value" or, without such a line, with that line put in
\* immediately before the closing delimiter; without a block a block holding
\* only the key is put before the original text; every other line is as it
\* was, and the result ends with a line feed exactly when the input did.
C13_UpsertChangesOneLine ==
    (lib.fn = "upsertFrontmatterField" /\ lib.n = 1) =>
        /\ lib.out \in UpsertedAsClaimed(lib.x, lib.y, lib.z)
        /\ EndsWithNewline(lib.out) <=> EndsWithNewline(lib.x)

\* C13 for texts that have no CRLF line ending
C13_OneLineOnLf ==
    (lib.fn = "upsertFrontmatterField" /\ lib.n = 1 /\ lib.x = Split(lib.x)) =>
        /\ lib.out \in UpsertedAsClaimed(lib.x, lib.y, lib.z)
        /\ EndsWithNewline(lib.out) <=> EndsWithNewline(lib.x)

\* ---------------------------------------------------------------------- C14
ContainsKey(markdown, field) ==
    \E i \in 1..Len(markdown) : markdown[i].k = "kv" /\ markdown[i].key = field

\* C14: stripFrontmatterField undoes upsertFrontmatterField: for a text D
\* without the key k, stripping k from the upsert of k into D gives D again,
\* also when D has no frontmatter block; and a text without a frontmatter
\* block is returned unchanged.
C14_StripUndoesUpsert ==
    lib.fn = "stripFrontmatterField" =>
        /\ (lib.z # NoFile /\ ~ContainsKey(lib.z, lib.y)) => lib.out = lib.z
        /\ ~HasClosedBlock(lib.x) => lib.out = lib.x

\* the second part of C14 alone
C14_NoBlockUnchanged ==
    (lib.fn = "stripFrontmatterField" /\ ~HasClosedBlock(lib.x)) => lib.out = lib.x

\* the first part of C14 for texts with a closed block and LF line endings
C14_UndoneWithinBlock ==
    (/\ lib.fn = "stripFrontmatterField"
     /\ lib.z # NoFile
     /\ ~ContainsKey(lib.z, lib.y)
     /\ HasClosedBlock(lib.z)
     /\ lib.z = Split(lib.z))
    => lib.out = lib.z

\* what is left for a text without a closed block: an empty block in front
\* of its lines
C14_EmptyBlockLeft ==
    (/\ lib.fn = "stripFrontmatterField"
     /\ lib.z # NoFile
     /\ lib.z # Empty
     /\ ~HasClosedBlock(lib.z))
    => lib.out = <<Delim, Delim>> \o Split(lib.z)

\* ---------------------------------------------------------------------- C15
\* walking the segments from the repository root (depth 0) steps above it
RECURSIVE Escapes(_, _)
Escapes(segs, depth) ==
    IF segs = << >> THEN FALSE
    ELSE IF Head(segs) = ".." THEN depth = 0 \/ Escapes(Tail(segs), depth - 1)
    ELSE IF Head(segs) \in {".", ""} THEN Escapes(Tail(segs), depth)
    ELSE Escapes(Tail(segs), depth + 1)

\* the reference, taken from the post's directory (from the root when it
\* begins with '/'), lies outside the repository root
Outside(postPath, assetPath) ==
    IF assetPath.lead >= 1 THEN Escapes(assetPath.segs, 0)
    ELSE Escapes(postPath.dir \o assetPath.segs, 0)

\* C15: resolveGitRelativePath(P, A) fails, and returns no path, whenever A
\* resolved against P's directory and normalized lies outside the repository
\* root, and whenever A names a scheme (any scheme:// URL, or a data: URL).
C15_UnsafeReferencesRejected ==
    lib.fn = "resolveGitRelativePath" =>
        /\ lib.y.scheme # "" => lib.out.err # ""
        /\ (lib.y.scheme = "" /\ Outside(lib.x, lib.y)) => lib.out.err # ""

\* the first part of C15 alone, for a reference that starts with at most one
\* '/'
C15_OutsideRejected ==
    (/\ lib.fn = "resolveGitRelativePath"
     /\ lib.y.scheme = ""
     /\ lib.y.lead <= 1
     /\ Outside(lib.x, lib.y))
    => lib.out.err = "outside"

\* the second part of C15 for data: and for schemes made of letters only
C15_LetterSchemesRejected ==
    (lib.fn = "resolveGitRelativePath" /\ NonLocalScheme(lib.y.scheme))
    => lib.out.err = "scheme"

\* ---------------------------------------------------------------------- C16
\* the value of a key of the text's frontmatter
FieldOf(markdown, fieldPath) ==
    getNestedField(splitFrontmatter(markdown).frontmatter, fieldPath)

\* a string with a character that is not white space
NonBlank(value) ==
    value.t = "str" /\ \E i \in 1..Len(value.s) : value.s[i] # " "

\* the slug of the frontmatter: 'slug', else 'bluesky.slug'
SlugOf(markdown) ==
    IF NonBlank(FieldOf(markdown, <<"slug">>)) THEN FieldOf(markdown, <<"slug">>)
    ELSE FieldOf(markdown, <<"bluesky", "slug">>)

PercentEncoded(segment) ==
    CASE segment = "weekly note" -> "weekly%20note"
      [] OTHER -> segment

\* the non-empty '/'-separated segments of the trimmed slug, percent-encoded
SlugPath(tokens) ==
    [i \in 1..Len(SelectSeq(tokens, LAMBDA t : t \notin {"/", " "})) |->
        PercentEncoded(SelectSeq(tokens, LAMBDA t : t \notin {"/", " "})[i])]

BlankSlug(markdown) ==
    /\ FieldOf(markdown, <<"slug">>).t = "str"
    /\ ~NonBlank(FieldOf(markdown, <<"slug">>))
    /\ FieldOf(markdown, <<"bluesky", "slug">>) = Undefined

\* C17: with a slug that is empty after trimming (the empty string, or white
\* space only) resolveBacklinkUrl returns the bare base URL, not a URL derived
\* from the post path.
C17_BlankSlugGivesBaseUrl ==
    (lib.fn = "resolveBacklinkUrl" /\ BlankSlug(lib.z)) => lib.out = BaseUrl

\* what the code does with such a slug: the URL of a post without slug
C17_BlankSlugIsNoSlug ==
    (lib.fn = "resolveBacklinkUrl" /\ BlankSlug(lib.z)) =>
        lib.out = backlinkFromPostPath(lib.y, lib.x)

\* a slug of slashes only gives the bare base URL
C17_SlashSlugGivesBaseUrl ==
    (lib.fn = "resolveBacklinkUrl" /\ SlugOf(lib.z).s = <<"/">>) => lib.out = BaseUrl

\* ---------------------------------------------------------------------- C18
NoSlug(markdown) ==
    /\ FieldOf(markdown, <<"slug">>) = Undefined
    /\ FieldOf(markdown, <<"bluesky", "slug">>) = Undefined

\* the segments of the posts root: '.', './' and trailing slashes add none
RootSegments(postsRootSpec) == SelectSeq(postsRootSpec, LAMBDA t : t \notin {".", ""})

Under(postsRootSpec, postPath) == IsPrefix(RootSegments(postsRootSpec), postPath.dir)

\* the directory of the post below the posts root
Below(postsRootSpec, postPath) ==
    SubSeq(postPath.dir, Len(RootSegments(postsRootSpec)) + 1, Len(postPath.dir))

\* the path relative to the posts root without its extension, a trailing
\* '/index' dropped
PagePath(relativeDir, name) ==
    IF name = "index" /\ relativeDir # << >> THEN relativeDir
    ELSE relativeDir \o <<name>>

PathUrl(postsRootSpec, postPath) ==
    [i \in 1..Len(PagePath(Below(postsRootSpec, postPath), postPath.name)) |->
        PercentEncoded(PagePath(Below(postsRootSpec, postPath), postPath.name)[i])]

\* C18: without a slug resolveBacklinkUrl returns the base URL joined with the
\* post path relative to the posts root, one trailing '.md' or '.markdown'
\* removed, a trailing '/index' collapsed, each segment percent-encoded
\* (posts/2026-02-01-launch.md under posts gives base/2026-02-01-launch).
C18_PathBacklink ==
    (/\ lib.fn = "resolveBacklinkUrl"
     /\ NoSlug(lib.z)
     /\ Under(lib.y, lib.x))
    => lib.out = PathUrl(lib.y, lib.x)

\* C18 for file names that have no '.md' in front of their extension
C18_PathBacklinkOneExtension ==
    (/\ lib.fn = "resolveBacklinkUrl"
     /\ NoSlug(lib.z)
     /\ Under(lib.y, lib.x)
     /\ lib.x.name \notin DOMAIN MdStems)
    => lib.out = PathUrl(lib.y, lib.x)

\* ---------------------------------------------------------------------- C19
\* the slug gives no path: there is none, or it is blank, or slashes only
SlugGivesNoPath(markdown) ==
    ~NonBlank(SlugOf(markdown)) \/ SlugPath(SlugOf(markdown).s) = << >>

\* the path derived from the post path is empty
PathGivesNoPath(postsRootSpec, postPath) ==
    backlinkFromPostPath(postsRootSpec, postPath) = << >>

\* a draft whose text holds the bare base URL
BareBacklink(drafts) ==
    \E i \in 1..Len(drafts) : BaseUrl \in drafts[i].text.links

\* C19: when neither the slug nor the post path gives a backlink path (the
\* derived path is empty) buildDrafts throws for that post, and no draft with
\* the bare base URL or with no backlink is produced.
C19_NoBacklinkPathFails ==
    lib.fn = "buildDrafts" =>
        /\ (SlugGivesNoPath(lib.z) /\ PathGivesNoPath(lib.y, lib.x)) => lib.out.err # ""
        /\ ~BareBacklink(lib.out.drafts)

\* what the code does with such a post when its text and image are valid:
\* the draft carries the bare base URL
C19_BareBacklinkDrafted ==
    (/\ lib.fn = "buildDrafts"
     /\ SlugGivesNoPath(lib.z)
     /\ PathGivesNoPath(lib.y, lib.x)
     /\ lib.out.err \notin ValidationErrors)
    => (lib.out.err = "" /\ BareBacklink(lib.out.drafts))

\* ---------------------------------------------------------------------- C20
\* a string that is not blank
IsText(value) ==
    /\ value.t = "str"
    /\ IF value.s = << >> THEN value.cp > 0 ELSE NonBlank(value)

\* the tiers in the order of the claim
TextTiers(postTextField) == <<postTextField, <<"bluesky", "text">>, <<"text">>, <<"post">> >>

\* the first tier that holds a text, 0 when none does
FirstTier(markdown, postTextField) ==
    FirstOrZero({i \in 1..4 : IsText(FieldOf(markdown, TextTiers(postTextField)[i]))})

\* the body has a line of text
BodyHasText(markdown) == \E i \in 1..Len(markdown) : markdown[i].k = "text"

ClaimedMessage(response) ==
    IF response.body = "object" /\ IsText(response.message)
    THEN Spelled(Trim(response.message.s))
    ELSE IF response.body = "object" /\ IsText(response.error)
    THEN Spelled(Trim(response.error.s))
    ELSE response.statusText

\* C21: a remote call that receives a response with a status outside 200..299
\* fails with an error that carries the status, the context of the operation
\* and the message of the body (its message member, else its error member,
\* else the status text), whatever the body is: empty, or not valid JSON.
C21_NonSuccessReported ==
    (lib.fn = "parseJsonResponse" /\ ~lib.x.ok)
    => /\ lib.out.kind = "api"
       /\ lib.out.status = lib.x.status
       /\ lib.out.context = lib.y
       /\ lib.out.message = ClaimedMessage(lib.x)

\* the same for every body that is blank or parses as JSON
C21_ParsedBodyReported ==
    (lib.fn = "parseJsonResponse" /\ ~lib.x.ok /\ lib.x.body # "invalid")
    => /\ lib.out.kind = "api"
       /\ lib.out.status = lib.x.status
       /\ lib.out.context = lib.y
       /\ lib.out.message = ClaimedMessage(lib.x)

\* a body that is not JSON hides the status of the response
C21_UnparsedBodyHidesStatus ==
    (lib.fn = "parseJsonResponse" /\ lib.x.body = "invalid")
    => (lib.out.kind = "json" /\ lib.out.status = 0)

\* a setting that no source gives: absent or blank on the command line, in
\* the config file and in the environment
Unresolved(sources) ==
    /\ ~IsText(sources.option)
    /\ ~IsText(sources.file)
    /\ ~IsText(sources.env)

\* C22: a run whose handle or base URL is unresolved fails with the
\* configuration error, before the posts are listed or read from the
\* repository and before any remote call; nothing stands in for the setting.
C22_UnresolvedConfigFails ==
    (cur.n > 0 /\ (Unresolved(cur.handle) \/ Unresolved(cur.baseUrl)))
    => /\ cur.status = "failed"
       /\ cur.err \in ConfigErrors
       /\ Unresolved(cur.handle) => cur.err = "handle"
       /\ ~cur.listed
       /\ ~cur.built
       /\ cur.calls = << >>
       /\ cur.drafts = << >>

\* normalizeConfig called directly: it throws exactly when a setting is blank
\* after the option has replaced the config file's member and the
\* environment is blank too, which covers every unresolved setting
C22_UnresolvedThrows ==
    lib.fn = "normalizeConfig"
    => /\ (Unresolved(lib.x) \/ Unresolved(lib.y)) => lib.out.err \in ConfigErrors
       /\ lib.out.err = "handle"
             <=> (~IsText(Merged(lib.x)) /\ ~IsText(lib.x.env))

\* a run without a base URL has failed on a repository with a post to publish
C22_Witness ==
    /\ cur.n > 0
    /\ ~Unresolved(cur.handle)
    /\ Unresolved(cur.baseUrl)
    /\ cur.err = "baseUrl"
    /\ Queued(cur.head0) # {}
    /\ Invalid(cur.head0) = {}

\* two runs that read the same commit with the same settings
SameHead(run, other) ==
    /\ run.n > 0 /\ other.n > 0
    /\ run.listed /\ other.listed
    /\ run.head0 = other.head0

\* C23: the draft list is determined by the latest commit alone: two runs on
\* the same HEAD with the same configuration build the same drafts (paths,
\* texts, images) or fail to build alike, whatever each finds in the index
\* and the working tree.
C23_DraftsFromHeadAlone ==
    SameHead(cur, prev)
    => (cur.drafts = prev.drafts /\ cur.built = prev.built)

\* the second run found a file of one of its drafts edited in the working tree
C23_Witness ==
    /\ SameHead(cur, prev)
    /\ cur.built
    /\ prev.tree0 = prev.head0
    /\ \E k \in 1..Len(cur.drafts) :
          cur.tree0[cur.drafts[k].path] # cur.head0[cur.drafts[k].path]

\* the second run found a post that is not in the commit
C23_UntrackedWitness ==
    /\ SameHead(cur, prev)
    /\ cur.built
    /\ \E f \in Posts : cur.head0[f] = NoFile /\ cur.tree0[f] # NoFile

CallsAt(run, op, at) ==
    {k \in 1..Len(run.calls) : run.calls[k].op = op /\ run.calls[k].at = at}

\* the call before call k is the successful upload for the same draft, and
\* call k carries the blob it returned
AfterUpload(calls, k) ==
    /\ k > 1
    /\ calls[k - 1].op = "uploadBlob"
    /\ calls[k - 1].at = calls[k].at
    /\ calls[k - 1].ok
    /\ calls[k - 1].blob # ""
    /\ calls[k].blob = calls[k - 1].blob

\* C24: within one draft the calls are ordered: for a draft with an image
\* uploadBlob has returned successfully before createRecord is issued and
\* the record embeds the blob it returned; after a failed uploadBlob no
\* createRecord is issued for the draft; for a draft without image no
\* uploadBlob is issued and the record has no embed.
C24_UploadBeforeRecord ==
    \A k \in 1..Len(cur.calls) :
        /\ (cur.calls[k].op = "createRecord"
             /\ cur.drafts[cur.calls[k].at].image # NoImage)
              => (AfterUpload(cur.calls, k)
                  /\ Cardinality(CallsAt(cur, "uploadBlob", cur.calls[k].at)) = 1)
        /\ (cur.calls[k].op = "createRecord"
             /\ cur.drafts[cur.calls[k].at].image = NoImage)
              => (cur.calls[k].blob = ""
                  /\ CallsAt(cur, "uploadBlob", cur.calls[k].at) = {})
        /\ cur.calls[k].op = "uploadBlob"
              => cur.drafts[cur.calls[k].at].image # NoImage
        /\ (cur.calls[k].op = "uploadBlob" /\ ~cur.calls[k].ok)
              => (CallsAt(cur, "createRecord", cur.calls[k].at) = {}
                  /\ k = Len(cur.calls)
                  /\ cur.status = "failed")

\* a record was created that embeds the second blob handle
C24_Witness ==
    \E k \in 2..Len(cur.calls) :
        /\ cur.calls[k].op = "createRecord"
        /\ cur.calls[k].blob = "b2"
        /\ AfterUpload(cur.calls, k)

\* an upload failed
C24_FailedUploadWitness ==
    \E k \in 1..Len(cur.calls) :
        cur.calls[k].op = "uploadBlob" /\ ~cur.calls[k].ok

SessionCalls(run) ==
    {k \in 1..Len(run.calls) : run.calls[k].op = "createSession"}

\* the run is past the point where createSession is called
PastSession(run) == run.n > 0 /\ run.pc # "session"

\* C25 (as amended): a non-dry run with at least one draft that passes the
\* clean-tree check and finds the password calls createSession exactly once,
\* before any uploadBlob or createRecord; a run that fails the clean-tree
\* check or finds no password never calls it, nor does a dry run or a run
\* without drafts; after a failed createSession no other call is issued, no
\* file is written and no commit is created.
C25_SessionOnceWhenReady ==
    cur.n > 0
    => /\ SessionCalls(cur) \subseteq {1}
       /\ (/\ PastSession(cur) /\ ~cur.dryRun /\ Len(cur.drafts) >= 1
           /\ ~Dirty(cur) /\ cur.password) => SessionCalls(cur) = {1}
       /\ (cur.dryRun \/ Len(cur.drafts) = 0 \/ Dirty(cur) \/ ~cur.password)
             => cur.calls = << >>
       /\ cur.calls # << >> => cur.calls[1].op = "createSession"
       /\ (cur.calls # << >> /\ ~cur.calls[1].ok)
             => /\ Len(cur.calls) = 1
                /\ cur.status = "failed"
                /\ cur.marked = << >>
                /\ cur.commits = 0
                /\ ~touched => Untouched(cur)

\* C25 (as claimed): every non-dry run with at least one draft calls
\* createSession exactly once.
C25_SessionInEveryRun ==
    (PastSession(cur) /\ ~cur.dryRun /\ Len(cur.drafts) >= 1)
    => Cardinality(SessionCalls(cur)) = 1

\* createSession returned a success status without accessJwt or did, and the
\* run ended there
C25_Witness ==
    /\ cur.err = "missing-fields"
    /\ Len(cur.calls) = 1
    /\ cur.calls[1].op = "createSession"
    /\ Len(cur.drafts) >= 1
    /\ Untouched(cur)

\* two drafts were published after one createSession
C25_OneSessionWitness ==
    /\ cur.status = "ok"
    /\ cur.publishedCount = 2
    /\ SessionCalls(cur) = {1}

\* C26: drafts are published in the sorted order of their paths, each
\* draft's record and marker complete before any call for a later one, and
\* the order is the same on every run over the same HEAD: two listings of
\* the same commit give the same sequence.
C26_SameOrderOnEveryRun ==
    (lib.fn = "listMarkdownPosts" /\ lib.n = 2) => lib.out = lib.first

\* two listings by processes of one locale give the same sequence
C26_SameOrderInOneLocale ==
    (lib.fn = "listMarkdownPosts" /\ lib.n = 2 /\ lib.z = lib.y)
    => lib.out = lib.first

\* the drafts follow the list of the commit, and every call for a draft is
\* issued after the markers of all drafts before it were written
C26_PublishedInListOrder ==
    /\ \A k \in 1..Len(cur.drafts) : \A l \in 1..Len(cur.drafts) :
          (k < l /\ cur.drafts[k].path = PostB) => cur.drafts[l].path # PostA
    /\ \A k \in 1..Len(cur.marked) : cur.marked[k] = cur.drafts[k].path
    /\ \A k \in 1..Len(cur.calls) :
          /\ cur.calls[k].at <= Len(cur.marked) + 1
          /\ \A l \in 1..Len(cur.calls) :
                k < l => cur.calls[k].at <= cur.calls[l].at

\* C27: committing an empty list of changed paths is an error and not a
\* no-op: commitPublishedPosts throws and leaves HEAD, the index and the
\* history as they were; a call that returns has created a commit.
C27_EmptyCommitIsError ==
    lib.fn = "commitPublishedPosts"
    => /\ lib.y = << >>
             => /\ lib.out.err = "nothing-to-commit"
                /\ lib.out.head = head
                /\ lib.out.index = index
                /\ lib.out.log = log
       /\ lib.out.err = ""
             => /\ lib.y # << >>
                /\ lib.out.head # head
                /\ Len(lib.out.log) = Len(log) + 1

\* an empty list was committed over a working tree that holds a change
C27_Witness ==
    /\ lib.fn = "commitPublishedPosts"
    /\ lib.y = << >>
    /\ lib.x # head
    /\ lib.out.err # ""

\* a run that returned after publishing a draft has created a commit
C27_ReturnedRunCommitted ==
    (cur.status = "ok" /\ cur.publishedCount >= 1)
    => /\ cur.commits = 1
       /\ cur.changedPaths # << >>
       /\ ~touched => (head # cur.head0 /\ Len(log) = Len(cur.log0) + 1)

\* the posts for which createRecord returned a success status in the run
RecordedIn(run) == {p \in Posts : remote[p] > run.remote0[p]}

\* C28: at the end of every non-dry run, completed or aborted, every post
\* for which createRecord returned a success status in that run has the
\* marker in its working-tree file.
C28_RecordedPostsAreMarked ==
    (cur.n > 0 /\ ~cur.dryRun /\ cur.pc = "idle" /\ ~touched)
    => \A p \in RecordedIn(cur) : TopLevelMarker(tree[p])

\* the same for the runs that did not end on a createRecord response whose
\* members could not be used
C28_MarkedWhenResponseUsable ==
    (/\ cur.n > 0 /\ ~cur.dryRun /\ cur.pc = "idle" /\ ~touched
     /\ cur.err \notin {"post-url", "missing-fields"})
    => \A p \in RecordedIn(cur) : TopLevelMarker(tree[p])

\* the text splits, and its frontmatter has no AT_URL key
Unmarked(markdown) ==
    /\ splitFrontmatter(markdown).ok
    /\ getNestedField(splitFrontmatter(markdown).frontmatter,
                      <<DEFAULT_AT_URL_FIELD>>) = Undefined

\* no line joined with line feeds is the empty text, like one empty line
AsText(lines) == IF lines = << >> THEN <<Blank>> ELSE lines

\* what was split has the marker with the value, and beside it the keys and
\* the body of the text before
ReadsBack(split, value, before) ==
    /\ split.ok
    /\ getNestedField(split.frontmatter, <<DEFAULT_AT_URL_FIELD>>) = Named(value)
    /\ {e \in split.frontmatter : e.path # <<DEFAULT_AT_URL_FIELD>>}
          = before.frontmatter
    /\ AsText(split.content) = AsText(before.content)

\* C29: the marker written is the marker read: for every document D that
\* splits and has no AT_URL key, and every value v, splitting
\* upsertFrontmatterField(D, AT_URL, v) succeeds and gives AT_URL = v, every
\* other key and the body as splitting D gave them.
C29_MarkerReadsBack ==
    (lib.fn = "splitFrontmatter" /\ Unmarked(lib.z))
    => ReadsBack(lib.out, lib.y, splitFrontmatter(lib.z))

\* the same for every document with a closed block, and for every document
\* with LF line endings
C29_ReadsBackBlockOrLf ==
    (/\ lib.fn = "splitFrontmatter"
     /\ Unmarked(lib.z)
     /\ HasClosedBlock(lib.z) \/ lib.z = Split(lib.z))
    => ReadsBack(lib.out, lib.y, splitFrontmatter(lib.z))

\* without a closed block and with CRLF line endings, the marker and the keys
\* read back and the body comes back with LF line endings
C29_BodyRewrittenAsLf ==
    (/\ lib.fn = "splitFrontmatter"
     /\ Unmarked(lib.z)
     /\ ~HasClosedBlock(lib.z))
    => /\ lib.out.ok
       /\ getNestedField(lib.out.frontmatter, <<DEFAULT_AT_URL_FIELD>>) = Named(lib.y)
       /\ AsText(lib.out.content) = Split(lib.z)

\* a path that is not empty, does not start with '/' and has no '.', '..' or
\* empty segment
NormalizedRelative(resolved) ==
    /\ ~resolved.absolute
    /\ resolved.path.dir # << >> \/ resolved.path.name # ""
    /\ \A i \in 1..Len(resolved.path.dir) :
          resolved.path.dir[i] \notin {"", ".", ".."}
    /\ resolved.path.name \notin {".", ".."}

\* C30: whenever resolveGitRelativePath returns, its result is a normalized
\* repo-relative path: not empty, not starting with '/', without '.' and
\* '..' segments, for a relative reference and for one that starts with one
\* or with several '/'.
C30_ResultIsRepoRelative ==
    (lib.fn = "resolveGitRelativePath" /\ lib.out.err = "")
    => NormalizedRelative(lib.out)

\* the same for a reference that starts with at most one '/'
C30_RelativeUpToOneSlash ==
    (lib.fn = "resolveGitRelativePath" /\ lib.out.err = "" /\ lib.y.lead <= 1)
    => NormalizedRelative(lib.out)

\* a reference that starts with several '/' is returned with a leading '/'
C30_SeveralSlashesStayAbsolute ==
    (lib.fn = "resolveGitRelativePath" /\ lib.y.scheme = "" /\ lib.y.lead >= 2)
    => (lib.out.err = "" /\ lib.out.absolute)

====
